---- MODULE Spec2Model ----
(***************************************************************************)
(* Entity resolution and ESG score aggregation of esg-scoring-india:       *)
(*   src/data_pipeline/processors/entity_matcher.py  (EntityMatcher)       *)
(*   src/scoring/esg_scorer.py                       (ESGScorer)           *)
(*   src/config.py                                   (Config)              *)
(*                                                                         *)
(* Strings are sequences of one-character strings.  A confidence is a      *)
(* rational <<num, den>>: difflib computes 2.0 * matches / length, one     *)
(* correctly rounded division of small integers, so two ratios compare as  *)
(* doubles exactly as they compare as rationals, and the literals 0.95,    *)
(* 0.8 and 0.7 compare with a ratio as 19/20, 4/5 and 7/10 do.             *)
(***************************************************************************)
EXTENDS Integers, Sequences, FiniteSets, TLC

\* ------------------------------------------------------------------ bounds

\* Longest text handed to find_company_in_text in the matcher specification.
MaxTextLen == 4

\* Number of documents of the store.
NumDocs == 2
\* Largest limit handed to match_news_to_companies.
MaxLimit == 2
\* Largest number of words of a company name handed to _generate_name_variations.
MaxNameWords == 3

\* ----------------------------------------------------------------- strings

None == <<"None">>

Lowers == <<"a", "b", "c", "d", "e", "f", "g", "h", "i", "j", "k", "l", "m", "n", "o", "p", "q", "r", "s", "t", "u", "v", "w", "x", "y", "z">>
Uppers == <<"A", "B", "C", "D", "E", "F", "G", "H", "I", "J", "K", "L", "M", "N", "O", "P", "Q", "R", "S", "T", "U", "V", "W", "X", "Y", "Z">>
LowerLetters == {Lowers[i] : i \in 1..Len(Lowers)}
UpperLetters == {Uppers[i] : i \in 1..Len(Uppers)}

\* str.lower(), one character.
LowerChar(c) ==
  IF c \in UpperLetters THEN Lowers[CHOOSE i \in 1..Len(Uppers) : Uppers[i] = c] ELSE c

\* str.lower()
Lower(s) == [i \in 1..Len(s) |-> LowerChar(s[i])]

\* \w of the re module: letters, digits and the underscore.
Digits == {"0", "1", "2", "3", "4", "5", "6", "7", "8", "9"}
IsWordChar(c) == c \in LowerLetters \cup UpperLetters \cup Digits \cup {"_"}

\* str.isspace(), one character: what str.split() splits on.
IsSpace(c) == c = " "

\* s == t[i : i + len(s)], i counted from 1.
MatchesAt(s, t, i) ==
  /\ i >= 1
  /\ i + Len(s) - 1 <= Len(t)
  /\ \A k \in 1..Len(s) : t[i + k - 1] = s[k]

\* s in t
Contains(t, s) == \E i \in 1..(Len(t) - Len(s) + 1) : MatchesAt(s, t, i)

\* \b between t[p] and t[p+1] (p = 0: the start of t, p = Len(t): its end).
WordBoundary(t, p) ==
  LET before == p >= 1 /\ IsWordChar(t[p])
      after  == p < Len(t) /\ IsWordChar(t[p + 1])
  IN  before # after

\* re.search(r'\b' + re.escape(v) + r'\b', t, re.IGNORECASE) on a lower-cased t.
RegexSearch(v, t) ==
  \E i \in 1..(Len(t) - Len(v) + 1) :
    /\ MatchesAt(Lower(v), Lower(t), i)
    /\ WordBoundary(t, i - 1)
    /\ WordBoundary(t, i + Len(v) - 1)

\* str.split(): the maximal runs of non-space characters, in order.
RECURSIVE SplitFrom(_, _, _)
SplitFrom(t, i, word) ==
  IF i > Len(t)
    THEN (IF word = <<>> THEN <<>> ELSE <<word>>)
    ELSE IF IsSpace(t[i])
      THEN (IF word = <<>> THEN <<>> ELSE <<word>>) \o SplitFrom(t, i + 1, <<>>)
      ELSE SplitFrom(t, i + 1, Append(word, t[i]))

Split(t) == SplitFrom(t, 1, <<>>)

\* ' '.join(words[i:j]) with 0 <= i < j <= len(words), Python's indices.
RECURSIVE Join(_, _, _)
Join(words, i, j) ==
  IF j = i + 1 THEN words[i + 1]
  ELSE Join(words, i, j - 1) \o <<" ">> \o words[j]

\* ------------------------------------------------------------- confidences

\* p > q for two confidences.
Gt(p, q) == p[1] * q[2] > q[1] * p[2]

\* The confidence of an exact match.
ExactConfidence == <<19, 20>>
\* A 1-3 word window is a candidate when its ratio exceeds this.
FuzzyFloor == <<4, 5>>
\* find_company_in_text returns a match only above this.
AcceptFloor == <<7, 10>>
\* match_news_to_companies assigns a match only above this.
BatchFloor == <<4, 5>>
\* highest_confidence = 0.0
ZeroConfidence == <<0, 1>>

\* ---------------------------------------------- difflib.SequenceMatcher

Min(x, y) == IF x <= y THEN x ELSE y

\* The length of the common run of a and b that starts at a[i] and b[j].
RECURSIVE RunLength(_, _, _, _)
RunLength(a, b, i, j) ==
  IF i > Len(a) \/ j > Len(b) THEN 0
  ELSE IF a[i] # b[j] THEN 0
  ELSE 1 + RunLength(a, b, i + 1, j + 1)

\* The scan of the starts (i, j), j ascending: a run replaces the block found
\* so far when it is longer, so of two runs of one length the earlier stays.
RECURSIVE LongestInRow(_, _, _, _, _)
LongestInRow(a, b, i, j, best) ==
  IF j > Len(b) THEN best
  ELSE IF RunLength(a, b, i, j) > best.k
    THEN LongestInRow(a, b, i, j + 1, [i |-> i, j |-> j, k |-> RunLength(a, b, i, j)])
  ELSE LongestInRow(a, b, i, j + 1, best)

\* The rows in ascending order of i.
RECURSIVE LongestFrom(_, _, _, _)
LongestFrom(a, b, i, best) ==
  IF i > Len(a) THEN best
  ELSE LongestFrom(a, b, i + 1, LongestInRow(a, b, i, 1, best))

\* find_longest_match without junk: the longest common block, the one that
\* starts earliest in a and, of those, earliest in b (k = 0: no common element).
LongestMatch(a, b) == LongestFrom(a, b, 1, [i |-> 1, j |-> 1, k |-> 0])

\* The summed sizes of get_matching_blocks(): the longest block m, then the
\* same to its left and to its right.
RECURSIVE MatchCount(_, _)
MatchAround(a, b, m) ==
  IF m.k = 0 THEN 0
  ELSE m.k
       + MatchCount(SubSeq(a, 1, m.i - 1), SubSeq(b, 1, m.j - 1))
       + MatchCount(SubSeq(a, m.i + m.k, Len(a)), SubSeq(b, m.j + m.k, Len(b)))

MatchCount(a, b) ==
  IF Len(a) = 0 \/ Len(b) = 0 THEN 0
  ELSE MatchAround(a, b, LongestMatch(a, b))

\* SequenceMatcher(None, a, b).ratio()
Ratio(a, b) ==
  IF Len(a) + Len(b) = 0 THEN <<1, 1>>
  ELSE <<2 * MatchCount(a, b), Len(a) + Len(b)>>

\* ------------------------------------------- EntityMatcher.find_company_in_text

\* The phrases ' '.join(words[i:j]) in the order of the two loops:
\* i in range(len(words)), j in range(i + 1, min(i + 4, len(words) + 1)).
RECURSIVE PhrasesFrom(_, _, _)
PhrasesFrom(words, i, j) ==
  IF i >= Len(words) THEN <<>>
  ELSE IF j >= Min(i + 4, Len(words) + 1) THEN PhrasesFrom(words, i + 1, i + 2)
  ELSE <<Join(words, i, j)>> \o PhrasesFrom(words, i, j + 1)

Phrases(text_lower) == PhrasesFrom(Split(text_lower), 0, 1)

\* FuzzyStep with the floor of the return statement, 0.7, as its first test.
FuzzyStepAboveAcceptFloor(acc, company_id, phrase, similarity) ==
  IF Gt(similarity, AcceptFloor) /\ Gt(similarity, acc.highest_confidence)
    THEN [best_match |-> <<company_id, phrase, similarity>>,
          highest_confidence |-> similarity]
    ELSE acc

\* One phrase of the inner loops: it replaces the best match when its ratio
\* exceeds 0.8 and the highest confidence so far.
FuzzyStep(acc, company_id, phrase, similarity) ==
  IF Gt(similarity, FuzzyFloor) /\ Gt(similarity, acc.highest_confidence)
    THEN [best_match |-> <<company_id, phrase, similarity>>,
          highest_confidence |-> similarity]
    ELSE acc

\* The inner loops over the phrases for one variation.
RECURSIVE FuzzyScan(_, _, _, _, _)
FuzzyScan(acc, variation, company_id, phrases, n) ==
  IF n > Len(phrases) THEN acc
  ELSE FuzzyScan(FuzzyStep(acc, company_id, phrases[n], Ratio(variation, phrases[n])),
                 variation, company_id, phrases, n + 1)

\* The exact test of one variation: substring, then the word-bounded search.
ExactMatch(variation, text_lower) ==
  Contains(text_lower, variation) /\ RegexSearch(variation, text_lower)

\* FindStep with the continue removed: the fuzzy loops also run after an exact
\* match that raised the highest confidence.
FindStepWithoutContinue(acc, entry, text_lower) ==
  FuzzyScan(IF /\ ExactMatch(entry.variation, text_lower)
               /\ Gt(ExactConfidence, acc.highest_confidence)
              THEN [best_match |-> <<entry.company_id, entry.variation, ExactConfidence>>,
                    highest_confidence |-> ExactConfidence]
              ELSE acc,
            entry.variation, entry.company_id, Phrases(text_lower), 1)

\* One iteration of the loop over name_variations.items(): the exact match
\* ends the iteration (continue) only when it raises the highest confidence;
\* otherwise the fuzzy loops run.
FindStep(acc, entry, text_lower) ==
  IF /\ ExactMatch(entry.variation, text_lower)
     /\ Gt(ExactConfidence, acc.highest_confidence)
    THEN [best_match |-> <<entry.company_id, entry.variation, ExactConfidence>>,
          highest_confidence |-> ExactConfidence]
    ELSE FuzzyScan(acc, entry.variation, entry.company_id, Phrases(text_lower), 1)

RECURSIVE FindLoop(_, _, _, _)
FindLoop(acc, index, text_lower, n) ==
  IF n > Len(index) THEN acc
  ELSE FindLoop(FindStep(acc, index[n], text_lower), index, text_lower, n + 1)

\* return best_match if highest_confidence > 0.7 else None
Accepted(acc) ==
  IF Gt(acc.highest_confidence, AcceptFloor) THEN acc.best_match ELSE None

\* find_company_in_text with best_match initialised to a placeholder triple and
\* returned without the test against 0.7.
FindReturnsBestUnchecked(index, txt) ==
  FindLoop([best_match |-> <<0, <<>>, ZeroConfidence>>,
            highest_confidence |-> ZeroConfidence], index, Lower(txt), 1).best_match

\* find_company_in_text(text) on the index: None, or
\* <<company_id, matched_text, confidence>>.
find_company_in_text(index, txt) ==
  IF txt = <<>> THEN None
  ELSE Accepted(FindLoop([best_match |-> None, highest_confidence |-> ZeroConfidence],
                         index, Lower(txt), 1))

\* ------------------------------------ EntityMatcher._generate_name_variations

\* s.endswith(suffix)
EndsWith(s, suffix) ==
  Len(suffix) <= Len(s) /\ SubSeq(s, Len(s) - Len(suffix) + 1, Len(s)) = suffix

\* s.replace(old, ''): every occurrence of old, left to right, is removed.
RECURSIVE RemoveAllFrom(_, _, _)
RemoveAllFrom(s, old, i) ==
  IF i > Len(s) THEN <<>>
  ELSE IF MatchesAt(old, s, i) THEN RemoveAllFrom(s, old, i + Len(old))
  ELSE <<s[i]>> \o RemoveAllFrom(s, old, i + 1)

RemoveAll(s, old) == RemoveAllFrom(s, old, 1)

\* suffixes, in the order of the list.
Suffixes == <<
  <<"L", "i", "m", "i", "t", "e", "d">>,
  <<"L", "t", "d">>,
  <<"C", "o", "r", "p", "o", "r", "a", "t", "i", "o", "n">>,
  <<"C", "o", "r", "p">>,
  <<"I", "n", "c">>,
  <<"C", "o", "m", "p", "a", "n", "y">>,
  <<"C", "o">>
>>

\* abbreviations: full name -> short market names.
Abbreviations == <<
  [full_name |-> <<"I", "n", "f", "o", "s", "y", "s">>,
   abbrevs |-> {<<"I", "N", "F", "Y">>}],
  [full_name |-> <<"T", "a", "t", "a", " ", "C", "o", "n", "s", "u", "l", "t", "a", "n", "c", "y", " ", "S", "e", "r", "v", "i", "c", "e", "s">>,
   abbrevs |-> {<<"T", "C", "S">>}],
  [full_name |-> <<"R", "e", "l", "i", "a", "n", "c", "e", " ", "I", "n", "d", "u", "s", "t", "r", "i", "e", "s">>,
   abbrevs |-> {<<"R", "I", "L">>}],
  [full_name |-> <<"S", "t", "a", "t", "e", " ", "B", "a", "n", "k", " ", "o", "f", " ", "I", "n", "d", "i", "a">>,
   abbrevs |-> {<<"S", "B", "I">>}],
  [full_name |-> <<"H", "D", "F", "C", " ", "B", "a", "n", "k">>,
   abbrevs |-> {<<"H", "D", "F", "C">>}],
  [full_name |-> <<"I", "C", "I", "C", "I", " ", "B", "a", "n", "k">>,
   abbrevs |-> {<<"I", "C", "I", "C", "I">>}],
  [full_name |-> <<"B", "h", "a", "r", "t", "i", " ", "A", "i", "r", "t", "e", "l">>,
   abbrevs |-> {<<"A", "i", "r", "t", "e", "l">>}],
  [full_name |-> <<"O", "i", "l", " ", "a", "n", "d", " ", "N", "a", "t", "u", "r", "a", "l", " ", "G", "a", "s", " ", "C", "o", "r", "p", "o", "r", "a", "t", "i", "o", "n">>,
   abbrevs |-> {<<"O", "N", "G", "C">>}],
  [full_name |-> <<"I", "n", "d", "i", "a", "n", " ", "O", "i", "l", " ", "C", "o", "r", "p", "o", "r", "a", "t", "i", "o", "n">>,
   abbrevs |-> {<<"I", "O", "C">>}],
  [full_name |-> <<"M", "a", "h", "i", "n", "d", "r", "a", " ", "&", " ", "M", "a", "h", "i", "n", "d", "r", "a">>,
   abbrevs |-> {<<"M", "&", "M">>, <<"M", "a", "h", "i", "n", "d", "r", "a">>}]
>>

\* The first suffix of the list the name ends with (after a space), 0 if none.
FirstSuffix(company_name) ==
  IF \E n \in 1..Len(Suffixes) : EndsWith(company_name, <<" ">> \o Suffixes[n])
    THEN CHOOSE n \in 1..Len(Suffixes) :
           /\ EndsWith(company_name, <<" ">> \o Suffixes[n])
           /\ \A m \in 1..(n - 1) : ~EndsWith(company_name, <<" ">> \o Suffixes[m])
    ELSE 0

\* base_name: the name with f' {suffix}' replaced by '' for that suffix.
BaseName(company_name) ==
  IF FirstSuffix(company_name) = 0 THEN company_name
  ELSE RemoveAll(company_name, <<" ">> \o Suffixes[FirstSuffix(company_name)])

\* _generate_name_variations(company_name, symbol), as the set the list is
\* reduced to by list(set(variations)); the order of that list is arbitrary.
generate_name_variations(company_name, symbol) ==
  LET base_name == BaseName(company_name)
      words     == Split(base_name)
  IN  {symbol, company_name}
      \cup (IF FirstSuffix(company_name) # 0 THEN {base_name} ELSE {})
      \cup {base_name \o <<" ">> \o suffix :
              suffix \in {x \in {Suffixes[2], Suffixes[1]} : ~EndsWith(base_name, x)}}
      \cup UNION {Abbreviations[n].abbrevs : n \in
              {m \in 1..Len(Abbreviations) :
                 Contains(Lower(company_name), Lower(Abbreviations[m].full_name))}}
      \cup (IF Len(words) > 2
              THEN {Join(words, 0, 2), words[1] \o <<" ">> \o words[Len(words)]}
              ELSE {})

\* ------------------------------------- binary64 arithmetic of the scorer
\* Python floats and numpy.float64 are IEEE 754 binary64 numbers, every
\* operation rounded to nearest, ties to even.  A number is sign, magnitude
\* and exponent: (-1)^neg * m * 2^e, with m a natural number of any size
\* written in limbs of 15 bits, the least significant first, no leading
\* zero limb (<<>> is zero).  The scorer stays far from overflow, from
\* subnormal numbers, from infinities and from NaN.

Base == 2 ^ 15

RECURSIVE Norm(_)
Norm(x) ==
  IF x = <<>> THEN x
  ELSE IF x[Len(x)] = 0 THEN Norm(SubSeq(x, 1, Len(x) - 1))
  ELSE x

Limb(x, i) == IF i <= Len(x) THEN x[i] ELSE 0

RECURSIVE BigAddFrom(_, _, _, _)
BigAddFrom(x, y, i, carry) ==
  IF i > Len(x) /\ i > Len(y)
    THEN (IF carry = 0 THEN <<>> ELSE <<carry>>)
    ELSE <<(Limb(x, i) + Limb(y, i) + carry) % Base>>
         \o BigAddFrom(x, y, i + 1, (Limb(x, i) + Limb(y, i) + carry) \div Base)

BigAdd(x, y) == BigAddFrom(x, y, 1, 0)

\* x - y for x >= y
RECURSIVE BigSubFrom(_, _, _, _)
BigSubFrom(x, y, i, borrow) ==
  IF i > Len(x) THEN <<>>
  ELSE IF x[i] - Limb(y, i) - borrow < 0
    THEN <<x[i] - Limb(y, i) - borrow + Base>> \o BigSubFrom(x, y, i + 1, 1)
    ELSE <<x[i] - Limb(y, i) - borrow>> \o BigSubFrom(x, y, i + 1, 0)

BigSub(x, y) == Norm(BigSubFrom(x, y, 1, 0))

\* -1, 0, 1 as x is below, equal to, above y, from limb i downwards
RECURSIVE BigCmpFrom(_, _, _)
BigCmpFrom(x, y, i) ==
  IF i = 0 THEN 0
  ELSE IF x[i] < y[i] THEN -1
  ELSE IF x[i] > y[i] THEN 1
  ELSE BigCmpFrom(x, y, i - 1)

BigCmp(x, y) ==
  IF Len(x) < Len(y) THEN -1
  ELSE IF Len(x) > Len(y) THEN 1
  ELSE BigCmpFrom(x, y, Len(x))

\* x * c for 0 <= c < Base
RECURSIVE BigMulSmallFrom(_, _, _, _)
BigMulSmallFrom(x, c, i, carry) ==
  IF i > Len(x)
    THEN (IF carry = 0 THEN <<>> ELSE <<carry>>)
    ELSE <<(x[i] * c + carry) % Base>>
         \o BigMulSmallFrom(x, c, i + 1, (x[i] * c + carry) \div Base)

BigMulSmall(x, c) == Norm(BigMulSmallFrom(x, c, 1, 0))

Zeros(n) == [i \in 1..n |-> 0]

RECURSIVE BigMulFrom(_, _, _)
BigMulFrom(x, y, j) ==
  IF j > Len(y) THEN <<>>
  ELSE BigAdd(Zeros(j - 1) \o BigMulSmallFrom(x, y[j], 1, 0), BigMulFrom(x, y, j + 1))

BigMul(x, y) == Norm(BigMulFrom(x, y, 1))

\* Quotient and remainder of x by n, 0 < n < Base, from limb i downwards.
WithDigit(rest, digit) == [q |-> Append(rest.q, digit), r |-> rest.r]

RECURSIVE BigDivSmallFrom(_, _, _, _)
BigDivSmallFrom(x, n, i, rem) ==
  IF i = 0 THEN [q |-> <<>>, r |-> rem]
  ELSE WithDigit(BigDivSmallFrom(x, n, i - 1, (rem * Base + x[i]) % n),
                 (rem * Base + x[i]) \div n)

NormQuotient(d) == [q |-> Norm(d.q), r |-> d.r]

BigDivSmall(x, n) == NormQuotient(BigDivSmallFrom(x, n, Len(x), 0))

BitLen(x) ==
  IF x = <<>> THEN 0
  ELSE 15 * (Len(x) - 1) + CHOOSE k \in 1..15 : 2 ^ (k - 1) <= x[Len(x)] /\ x[Len(x)] < 2 ^ k

ShiftLeft(x, s) ==
  IF x = <<>> THEN x ELSE BigMulSmall(Zeros(s \div 15) \o x, 2 ^ (s % 15))

ShiftRight(x, s) == BigDivSmall(SubSeq(x, (s \div 15) + 1, Len(x)), 2 ^ (s % 15)).q

IsOdd(x) == x # <<>> /\ x[1] % 2 = 1

\* q = floor(m / 2^s) moved to the nearest integer, a tie to the even one.
NearestEven(m, s, q, cmp) ==
  IF cmp > 0 \/ (cmp = 0 /\ IsOdd(q)) THEN BigAdd(q, <<1>>) ELSE q

RoundedQuotient(m, s, q) ==
  NearestEven(m, s, q, BigCmp(BigSub(m, ShiftLeft(q, s)), ShiftLeft(<<1>>, s - 1)))

\* m / 2^s to the nearest integer, ties to even (s >= 1)
RoundShift(m, s) == RoundedQuotient(m, s, ShiftRight(m, s))

\* The binary64 number nearest to (-1)^neg * m * 2^e, given the bit length
\* of m: 53 significant bits are kept.
FlOfLength(neg, m, e, bits) ==
  IF bits <= 53 THEN [neg |-> neg /\ m # <<>>, m |-> m, e |-> e]
  ELSE [neg |-> neg, m |-> RoundShift(m, bits - 53), e |-> e + bits - 53]

Fl(neg, m, e) == FlOfLength(neg, m, e, BitLen(m))

\* The binary64 number nearest to m * 2^e / n, from the quotient of
\* m * 2^75 by n and a sticky bit for its remainder.
FlOfQuotient(neg, d, e) ==
  Fl(neg, BigAdd(BigMulSmall(d.q, 2), IF d.r = 0 THEN <<>> ELSE <<1>>), e - 76)

FlDivSmall(x, n) == FlOfQuotient(x.neg, BigDivSmall(ShiftLeft(x.m, 75), n), x.e)

FlMul(x, y) == Fl(x.neg # y.neg, BigMul(x.m, y.m), x.e + y.e)

\* The magnitudes of x and y over the smaller exponent e.
FlAddAligned(x, y, mx, my, e) ==
  IF x.neg = y.neg THEN Fl(x.neg, BigAdd(mx, my), e)
  ELSE IF BigCmp(mx, my) >= 0 THEN Fl(x.neg, BigSub(mx, my), e)
  ELSE Fl(y.neg, BigSub(my, mx), e)

FlAddAt(x, y, e) == FlAddAligned(x, y, ShiftLeft(x.m, x.e - e), ShiftLeft(y.m, y.e - e), e)

FlAdd(x, y) == FlAddAt(x, y, Min(x.e, y.e))

\* x > y for x, y >= 0
FlGtAt(x, y, e) == BigCmp(ShiftLeft(x.m, x.e - e), ShiftLeft(y.m, y.e - e)) > 0

FlGt(x, y) == FlGtAt(x, y, Min(x.e, y.e))

\* bool(x) of a float: every number but zero.
Truthy(x) == x.m # <<>>

\* The float of an integer n, -Base < n < Base.
FlInt(n) == [neg |-> n < 0, m |-> IF n = 0 THEN <<>> ELSE <<IF n < 0 THEN -n ELSE n>>, e |-> 0]

\* The float written with two decimals: the binary64 number nearest to h/100.
FlHundredths(h) == FlDivSmall(FlInt(h), 100)

\* The integer nearest to m * 2^e, ties to even, as a number.
ToInt(x) == IF x = <<>> THEN 0 ELSE IF Len(x) = 1 THEN x[1] ELSE x[1] + Base * x[2]

NearestInt(m, e) == ToInt(IF e >= 0 THEN ShiftLeft(m, e) ELSE RoundShift(m, -e))

\* float.__round__(x, 2) for x >= 0: the exact value of x correctly rounded
\* to two decimals, ties to even; the result is the float written with
\* these hundredths.
PyRound2(x) == NearestInt(BigMulSmall(x.m, 100), x.e)

\* numpy's round(x, 2) for x >= 0: rint(x * 100) / 100, the product rounded
\* to binary64 before rint; the result is the float written with these
\* hundredths.
NpRound2Of(product) == NearestInt(product.m, product.e)

NpRound2(x) == NpRound2Of(FlMul(x, FlInt(100)))

\* ------------------------------------------------------------------- state

VARIABLES
  company_cache,    \* EntityMatcher.company_cache: company id -> its record
  name_variations,  \* EntityMatcher.name_variations, an insertion-ordered dict:
                    \* a sequence of [variation, company_id] with distinct variations
  documents,        \* the documents table, as committed
  session,          \* the invocations of match_news_to_companies, one per session
  previous,         \* the last invocation that returned before the current one
  text,             \* the argument of the find_company_in_text call observed
  found,            \* its result, Pending before it returns
  score,            \* what the calculate_company_score call observed gave
  companies_table,  \* the companies table
  esg_scores,       \* the esg_scores table
  validation,       \* the validate_existing_matches call observed
  mapping,          \* the add_manual_mapping call observed
  refresh,          \* the refresh_company_cache call in progress
  lookup,           \* the find_company_in_text call of another thread observed
  generated         \* the _generate_name_variations call observed

vars ==
  <<company_cache, name_variations, documents, session, previous, text, found, score,
    companies_table, esg_scores, validation, mapping, refresh, lookup, generated>>

Pending == <<"pending">>

\* calculate_company_score has not been called yet.  The four values are in
\* hundredths: the float returned is the one written with these two decimals.
NoScore ==
  [outcome |-> "none", company_id |-> 0, at |-> [day |-> 0, midnight |-> FALSE],
   company_queried |-> FALSE, rounding |-> "float",
   contributors |-> [E |-> <<>>, S |-> <<>>, G |-> <<>>], weights |-> <<>>,
   E |-> 0, S |-> 0, G |-> 0, composite |-> 0]

\* No invocation has returned yet.
NoRun ==
  [returned |-> FALSE, limit |-> 0, result |-> 0, attributed |-> {},
   exhausted |-> FALSE]

\* validate_existing_matches has not been called yet.
NoValidation ==
  [pc |-> "idle", matched_docs |-> <<>>, mentioned |-> {},
   validation_stats |-> [total_checked |-> 0, confirmed_matches |-> 0,
                         questionable_matches |-> 0, no_mention_found |-> 0]]

\* add_manual_mapping has not been called yet.
NoMapping ==
  [pc |-> "idle", text_pattern |-> <<>>, company_symbol |-> <<>>, company |-> <<>>,
   outcome |-> [raised |-> FALSE, value |-> "None"]]

\* No refresh_company_cache is in progress and none has completed.
NoRefresh ==
  [pc |-> "idle", completed |-> FALSE, old |-> <<>>, companies |-> <<>>, n |-> 0,
   variations |-> {}]

\* No other thread has looked a text up yet.
NoLookup ==
  [called |-> FALSE, text |-> <<>>, refresh_pc |-> "idle", name_variations |-> {},
   old |-> {}, match |-> None]

\* _generate_name_variations has not been called yet.
NoNames ==
  [called |-> FALSE, company_name |-> <<>>, symbol |-> <<>>, base_name |-> <<>>,
   variations |-> {}]

\* --------------------------------------- find_company_in_text, as a function

\* The characters of the texts and the variations of the indexes the matcher
\* specification draws from.
FindChars == {"a", "B", " "}
FindVariations == {<<"a", "b">>, <<"a", "b", "a">>, <<"b">>}
FindCompanyIds == {1, 2}

RECURSIVE StringsUpTo(_, _)
StringsUpTo(chars, n) ==
  IF n = 0 THEN {<<>>}
  ELSE LET shorter == StringsUpTo(chars, n - 1)
       IN  shorter \cup {Append(t, c) : t \in shorter, c \in chars}

\* Every dict over the variations: each order of each subset, each variation
\* mapped to either company.
RECURSIVE IndexesOver(_)
IndexesOver(variations) ==
  {<<>>} \cup UNION {
    {<<[variation |-> v, company_id |-> c]>> \o rest :
       c \in FindCompanyIds, rest \in IndexesOver(variations \ {v})} :
    v \in variations}

InitFind ==
  /\ company_cache = <<>>
  /\ name_variations \in IndexesOver(FindVariations)
  /\ documents = <<>>
  /\ session = <<>>
  /\ previous = NoRun
  /\ text \in StringsUpTo(FindChars, MaxTextLen)
  /\ found = Pending
  /\ score = NoScore
  /\ companies_table = <<>>
  /\ esg_scores = <<>>
  /\ validation = NoValidation
  /\ mapping = NoMapping
  /\ refresh = NoRefresh
  /\ lookup = NoLookup
  /\ generated = NoNames

\* matcher.find_company_in_text(text) returns.
FindCompanyInText ==
  /\ found = Pending
  /\ found' = find_company_in_text(name_variations, text)
  /\ UNCHANGED <<company_cache, name_variations, documents, session, previous, text, score>>
  /\ UNCHANGED <<companies_table, esg_scores, validation, mapping, refresh, lookup, generated>>

NextFind == FindCompanyInText

SpecFind == InitFind /\ [][NextFind]_vars

\* ----------------------------------------------- claims on the matcher

Eq(p, q) == p[1] * q[2] = q[1] * p[2]

\* The largest confidence of a non-empty set.
MaxConfidence(S) == CHOOSE p \in S : \A q \in S : ~Gt(q, p)

\* The fuzzy candidates of a variation: the ratios above 0.8 of its windows.
FuzzyCandidates(variation, text_lower) ==
  {r \in {Ratio(variation, Phrases(text_lower)[n]) : n \in 1..Len(Phrases(text_lower))} :
     Gt(r, FuzzyFloor)}

\* Every candidate of the specification's algorithm: 0.95 for each variation
\* that occurs word-bounded, and the fuzzy candidates of every variation.
AllCandidates(index, text_lower) ==
  UNION {(IF ExactMatch(index[n].variation, text_lower) THEN {ExactConfidence} ELSE {})
         \cup FuzzyCandidates(index[n].variation, text_lower) : n \in 1..Len(index)}

\* A variation is a symbol-like token: not empty, no white space.
IsToken(v) == v # <<>> /\ \A i \in 1..Len(v) : ~IsSpace(v[i])

\* C1: whenever the text contains a token of the index word-bounded,
\* find_company_in_text returns the company of that token with confidence
\* exactly 0.95, whatever else the index holds and whatever its order.
C1_SymbolGivesExactConfidence ==
  found # Pending =>
    \A n \in 1..Len(name_variations) :
      (/\ IsToken(name_variations[n].variation)
       /\ RegexSearch(name_variations[n].variation, Lower(text)))
      => /\ found # None
         /\ found[1] = name_variations[n].company_id
         /\ Eq(found[3], ExactConfidence)

\* C2: find_company_in_text returns None or a triple whose confidence
\* exceeds 0.7; an empty text and an empty index give None.
C2_NoneOrAboveFloor ==
  found # Pending =>
    /\ found = None \/ (Len(found) = 3 /\ Gt(found[3], AcceptFloor))
    /\ (text = <<>> \/ name_variations = <<>>) => found = None

\* A fuzzy match below 0.95 was returned.
C2_Witness ==
  /\ found # Pending
  /\ found # None
  /\ Gt(ExactConfidence, found[3])

\* C3 as stated: the confidence returned is the maximum over all candidates,
\* the fuzzy candidates of exactly matching variations included.
C3_MaxOverAllCandidates ==
  found # Pending =>
    LET all == AllCandidates(name_variations, Lower(text))
    IN  IF all = {} THEN found = None
        ELSE found # None /\ Eq(found[3], MaxConfidence(all))

\* The one variation whose fuzzy windows the continue skips: the first that
\* matches exactly while no earlier fuzzy candidate has reached 0.95 (0: none).
SkippedPosition(index, text_lower) ==
  LET skips(n) ==
        /\ ExactMatch(index[n].variation, text_lower)
        /\ \A m \in 1..(n - 1) :
             \A r \in FuzzyCandidates(index[m].variation, text_lower) :
               Gt(ExactConfidence, r)
  IN  IF \E n \in 1..Len(index) : skips(n)
        THEN CHOOSE n \in 1..Len(index) : skips(n) /\ \A m \in 1..(n - 1) : ~skips(m)
        ELSE 0

\* The candidates the loop takes into account.
LoopCandidates(index, text_lower) ==
  (IF \E n \in 1..Len(index) : ExactMatch(index[n].variation, text_lower)
     THEN {ExactConfidence} ELSE {})
  \cup UNION {FuzzyCandidates(index[n].variation, text_lower) :
                n \in (1..Len(index)) \ {SkippedPosition(index, text_lower)}}

\* C3, amended: the confidence returned is the maximum over 0.95 (when some
\* variation occurs word-bounded) and the fuzzy candidates of every variation
\* but the one whose exact match first raised the highest confidence to 0.95.
C3_MaxOverLoopCandidates ==
  found # Pending =>
    LET cands == LoopCandidates(name_variations, Lower(text))
    IN  IF cands = {} THEN found = None
        ELSE found # None /\ Eq(found[3], MaxConfidence(cands))

\* An exact match was returned with 0.95 although the same text holds a
\* window of ratio 1.0.
C3_Witness ==
  /\ found # Pending
  /\ found # None
  /\ Eq(found[3], ExactConfidence)
  /\ \E r \in AllCandidates(name_variations, Lower(text)) : Eq(r, <<1, 1>>)

\* ------------------------------------------------------------ the store

\* company_id IS NULL: the ids of the companies table are positive.
NoCompany == 0
\* sector IS NULL
NoSector == "NULL"

\* The companies table.  The query of _load_companies returns the active
\* rows in this order.
Companies == <<
  [id |-> 1, symbol |-> <<"A", "B", "C">>, name |-> <<"A", "b", "c", " ", "L", "i", "m", "i", "t", "e", "d">>,
   sector |-> "Banking", is_active |-> TRUE],
  [id |-> 2, symbol |-> <<"X", "Y">>, name |-> <<"X", "y", " ", "I", "n", "c">>,
   sector |-> NoSector, is_active |-> FALSE],
  [id |-> 3, symbol |-> <<"Q">>, name |-> <<"Q", "r">>,
   sector |-> "Textiles", is_active |-> FALSE]
>>

\* content[:500].  The lengths of the model are scaled: a content of the
\* model can be longer than this slice, as a stored article can.
ContentSampleLen == 5

\* s[:n]
Take(s, n) == SubSeq(s, 1, Min(n, Len(s)))

DocIds == 1..NumDocs

\* What a stored document can be when the matcher is constructed.  A title
\* or content of NULL and an empty one are the same to the matcher
\* (doc.title or '', and doc.content), and both are <<>> here.
DocumentKinds == <<
  \* the symbol of company 1 in the title
  [doc_type |-> "news", title |-> <<"A", "B", "C", " ", "u", "p">>, content |-> <<>>,
   company_id |-> NoCompany, confidence_score |-> None,
   published_date |-> <<>>, sentiment_score |-> <<>>, esg_topics |-> <<>>],
  \* a title close to the symbol: ratio('abc', 'abcd') = 6/7
  [doc_type |-> "news", title |-> <<"A", "b", "c", "d">>, content |-> <<>>,
   company_id |-> NoCompany, confidence_score |-> None,
   published_date |-> <<>>, sentiment_score |-> <<>>, esg_topics |-> <<>>],
  \* no company in the title, the symbol within the leading slice of the content
  [doc_type |-> "news", title |-> <<"u", "p">>, content |-> <<"a", "b", "c", " ", "x">>,
   company_id |-> NoCompany, confidence_score |-> None,
   published_date |-> <<>>, sentiment_score |-> <<>>, esg_topics |-> <<>>],
  \* no title, the symbol beyond the leading slice of the content
  [doc_type |-> "news", title |-> <<>>, content |-> <<"x", " ", " ", "a", "b", "c">>,
   company_id |-> NoCompany, confidence_score |-> None,
   published_date |-> <<>>, sentiment_score |-> <<>>, esg_topics |-> <<>>],
  \* a regulatory notice that names the company
  [doc_type |-> "regulatory", title |-> <<"A", "B", "C">>, content |-> <<>>,
   company_id |-> NoCompany, confidence_score |-> None,
   published_date |-> <<>>, sentiment_score |-> <<>>, esg_topics |-> <<>>],
  \* a news article attributed when it was stored
  [doc_type |-> "news", title |-> <<"A", "b", "c", "d">>, content |-> <<>>,
   company_id |-> 2, confidence_score |-> None,
   published_date |-> <<>>, sentiment_score |-> <<>>, esg_topics |-> <<>>]
>>

\* The ways to take NumDocs of n kinds of documents.  The ids are
\* interchangeable, so the kinds are taken in ascending order.
KindsOf(n) ==
  {f \in [DocIds -> 1..n] : \A d \in DocIds \ {NumDocs} : f[d] <= f[d + 1]}

\* The stores of NumDocs documents.
Stores == {[d \in DocIds |-> DocumentKinds[k[d]]] : k \in KindsOf(Len(DocumentKinds))}

\* ------------------------------------------- EntityMatcher._load_companies

\* dict.setdefault(key, company_id): an entry already there is kept.
DictSetDefault(dict, key, company_id) ==
  IF \E n \in 1..Len(dict) : dict[n].variation = key
    THEN dict
    ELSE Append(dict, [variation |-> key, company_id |-> company_id])

\* name_variations[key] = company_id on an insertion-ordered dict: a known
\* key keeps its place and takes the new value, a new key goes last.
DictSet(dict, key, company_id) ==
  IF \E n \in 1..Len(dict) : dict[n].variation = key
    THEN [n \in 1..Len(dict) |->
            IF dict[n].variation = key
              THEN [variation |-> key, company_id |-> company_id]
              ELSE dict[n]]
    ELSE Append(dict, [variation |-> key, company_id |-> company_id])

\* Every order in which a list made of a set can come out.
RECURSIVE Orders(_)
Orders(S) ==
  IF S = {} THEN {<<>>}
  ELSE UNION {{<<x>> \o rest : rest \in Orders(S \ {x})} : x \in S}

\* for variation in variations: name_variations[variation.lower()] = company.id
RECURSIVE IndexVariations(_, _, _, _)
IndexVariations(dict, variations, company_id, n) ==
  IF n > Len(variations) THEN dict
  ELSE IndexVariations(DictSet(dict, Lower(variations[n]), company_id),
                       variations, company_id, n + 1)

\* The loop over the active companies from the n-th on: the indexes it can
\* leave, one for each order of each company's variations.
RECURSIVE LoadFrom(_, _, _)
LoadFrom(dicts, companies, n) ==
  IF n > Len(companies) THEN dicts
  ELSE LoadFrom({IndexVariations(d, order, companies[n].id, 1) :
                   d \in dicts,
                   order \in Orders(generate_name_variations(companies[n].name,
                                                             companies[n].symbol))},
                companies, n + 1)

IsActive(company) == company.is_active

\* The name_variations _load_companies can build on an empty dict.
LoadedIndexes == LoadFrom({<<>>}, SelectSeq(Companies, IsActive), 1)

\* The company_cache _load_companies builds.
LoadedCache ==
  LET active == SelectSeq(Companies, IsActive)
  IN  [id \in {active[n].id : n \in 1..Len(active)} |->
         LET c == active[CHOOSE n \in 1..Len(active) : active[n].id = id]
         IN  [symbol |-> c.symbol, name |-> c.name, sector |-> c.sector]]

\* ------------------------------------ EntityMatcher.match_news_to_companies

Sessions == {1, 2}

\* result: <<>> while nothing is returned, <<n>> once n is returned.
IdleSession ==
  [pc |-> "idle", limit |-> 0, before |-> <<>>, unmatched_docs |-> {},
   assigned |-> {}, matched_count |-> 0, result |-> <<>>]

\* if not match and doc.content: match = find_company_in_text(content[:500])
ContentMatch(index, doc, match) ==
  IF match = None /\ doc.content # <<>>
    THEN find_company_in_text(index, Take(doc.content, ContentSampleLen))
    ELSE match

\* The match of one document: the title first, then, when the title gives no
\* match and there is a content, the leading slice of the content.
DocumentMatch(index, doc) ==
  ContentMatch(index, doc, find_company_in_text(index, doc.title))

\* DocumentMatch on the indexes construction can leave and the documents of
\* the stores, computed once: the match depends on the index and on the
\* title and the content of the document alone.
MatchesOfStores ==
  [index \in LoadedIndexes |->
     [doc \in {DocumentKinds[k] : k \in DOMAIN DocumentKinds} |->
        DocumentMatch(index, doc)]]

\* DocumentMatch, looked up where it has been computed.
MatchOf(index, doc) ==
  IF /\ index \in DOMAIN MatchesOfStores
     /\ doc \in {DocumentKinds[k] : k \in DOMAIN DocumentKinds}
    THEN MatchesOfStores[index][doc]
    ELSE DocumentMatch(index, doc)

\* The test of the batch with a floor of 0.9.
IsAssignedAboveNineTenths(match) == match # None /\ Gt(match[3], <<9, 10>>)

\* if match: ... if confidence > 0.8
IsAssigned(match) == match # None /\ Gt(match[3], BatchFloor)

\* What the loop sets on one document: nothing, or the two attributes.
Assignment(d, match) ==
  IF IsAssigned(match)
    THEN {[id |-> d, company_id |-> match[1], confidence_score |-> match[3]]}
    ELSE {}

\* The query without its test of company_id.
IsNews(doc) == doc.doc_type = "news"

\* The query: news documents without a company.
IsUnmatched(doc) == doc.doc_type = "news" /\ doc.company_id = NoCompany

\* The rows that qualify for the query.
Unmatched(docs) == {d \in DOMAIN docs : IsUnmatched(docs[d])}

\* The query without .limit(limit): every row that qualifies.
QueryWithoutLimit(docs, limit) == {Unmatched(docs)}

\* The rows the query can return: .limit(limit) without an order keeps any
\* limit of the rows that qualify, all of them when there are no more.
QueryResults(docs, limit) ==
  {sel \in SUBSET Unmatched(docs) :
     Cardinality(sel) = Min(limit, Cardinality(Unmatched(docs)))}

\* The loop over the documents of the query: the attributes it sets on the
\* session's objects, not yet written to the store.
AssignedBy(index, docs, sel) ==
  UNION {Assignment(d, MatchOf(index, docs[d])) : d \in sel}

\* What is remembered of an invocation that returned.
Returned(run) ==
  [returned |-> TRUE,
   limit |-> run.limit,
   result |-> run.result[1],
   attributed |-> {a.id : a \in run.assigned},
   exhausted |-> run.unmatched_docs = Unmatched(run.before)]

\* match_news_to_companies(limit) up to db.commit(): the query and the loop.
\* What the loop sets on a row depends on the index and on the row alone, so
\* it is evaluated once for the rows that qualify and kept for the rows the
\* query returned.
MatchQuery(s) ==
  /\ session[s].pc \in {"idle", "returned", "raised"}
  /\ \E loop \in {AssignedBy(name_variations, documents, Unmatched(documents))} :
       \E limit \in 1..MaxLimit :
         \E sel \in QueryResults(documents, limit) :
           \E assigned \in {{a \in loop : a.id \in sel}} :
             session' = [session EXCEPT ![s] =
               [pc |-> "matched", limit |-> limit, before |-> documents,
                unmatched_docs |-> sel, assigned |-> assigned,
                matched_count |-> Cardinality(assigned), result |-> <<>>]]
  /\ previous' = IF session[s].pc = "returned" THEN Returned(session[s]) ELSE previous
  /\ UNCHANGED <<company_cache, name_variations, documents, text, found, score>>
  /\ UNCHANGED <<companies_table, esg_scores, validation, mapping, refresh, lookup, generated>>

\* A write that leaves a row alone once another session has given it a
\* company: UPDATE ... WHERE company_id IS NULL.
WrittenIfUnattributed(docs, assigned) ==
  [d \in DOMAIN docs |->
     IF docs[d].company_id = NoCompany /\ \E a \in assigned : a.id = d
       THEN [docs[d] EXCEPT
               !.company_id = (CHOOSE a \in assigned : a.id = d).company_id,
               !.confidence_score = (CHOOSE a \in assigned : a.id = d).confidence_score]
       ELSE docs[d]]

\* The store after the session's objects are written.
Written(docs, assigned) ==
  [d \in DOMAIN docs |->
     IF \E a \in assigned : a.id = d
       THEN [docs[d] EXCEPT
               !.company_id = (CHOOSE a \in assigned : a.id = d).company_id,
               !.confidence_score = (CHOOSE a \in assigned : a.id = d).confidence_score]
       ELSE docs[d]]

\* db.commit() and return matched_count.
MatchCommit(s) ==
  /\ session[s].pc = "matched"
  /\ documents' = Written(documents, session[s].assigned)
  /\ session' = [session EXCEPT ![s].pc = "returned",
                                ![s].result = <<session[s].matched_count>>]
  /\ UNCHANGED <<company_cache, name_variations, previous, text, found, score>>
  /\ UNCHANGED <<companies_table, esg_scores, validation, mapping, refresh, lookup, generated>>

\* A rollback that lets the attributes set so far reach the store.
PartialCommit(docs, assigned) == Written(docs, assigned)

\* What an exception in the loop or in db.commit() leaves in the store:
\* db.rollback(), nothing of the session is written.
RolledBack(docs, assigned) == docs

\* except Exception: db.rollback(); raise
MatchRaise(s) ==
  /\ session[s].pc = "matched"
  /\ documents' = RolledBack(documents, session[s].assigned)
  /\ session' = [session EXCEPT ![s].pc = "raised"]
  /\ UNCHANGED <<company_cache, name_variations, previous, text, found, score>>
  /\ UNCHANGED <<companies_table, esg_scores, validation, mapping, refresh, lookup, generated>>

\* ------------------------------------------------------- the specification

\* The store and the matcher after EntityMatcher() is constructed.
Init ==
  /\ company_cache = LoadedCache
  /\ name_variations \in LoadedIndexes
  /\ documents \in Stores
  /\ session = [s \in Sessions |-> IdleSession]
  /\ previous = NoRun
  /\ text = <<>>
  /\ found = None
  /\ score = NoScore
  /\ companies_table = Companies
  /\ esg_scores = <<>>
  /\ validation = NoValidation
  /\ mapping = NoMapping
  /\ refresh = NoRefresh
  /\ lookup = NoLookup
  /\ generated = NoNames

\* One matcher, one invocation after the other.
Next ==
  \/ MatchQuery(1)
  \/ MatchCommit(1)
  \/ MatchRaise(1)

Spec == Init /\ [][Next]_vars

\* ------------------------------------------- claims about the batch (Spec)

\* The match the batch is to use for a document, given the match of its
\* title: that one, otherwise the match of the leading slice of the content.
TitleThenContent(index, doc, of_title) ==
  IF of_title # None THEN of_title
  ELSE find_company_in_text(index, Take(doc.content, ContentSampleLen))

\* One selected document after the run, against the match found for it.
SetIffAboveFloor(was, is, match) ==
  IF match # None /\ Gt(match[3], <<4, 5>>)
    THEN is.company_id = match[1] /\ is.confidence_score = match[3]
    ELSE is.company_id = NoCompany /\ is.confidence_score = was.confidence_score

\* C4: a run that returned has set company_id on a selected document if and
\* only if the match found for it (title first, otherwise the leading slice
\* of the content) has a confidence above 0.8, has set confidence_score to
\* that confidence with it, and has returned the number of documents whose
\* company_id it set.
C4_SetsIffAboveBatchFloor ==
  \A s \in Sessions :
    session[s].pc = "returned" =>
      /\ \A d \in session[s].unmatched_docs :
           SetIffAboveFloor(session[s].before[d], documents[d],
             TitleThenContent(name_variations, session[s].before[d],
               find_company_in_text(name_variations, session[s].before[d].title)))
      /\ session[s].result =
           <<Cardinality({d \in DocIds :
               documents[d].company_id # session[s].before[d].company_id})>>

\* A run returned 1 after it selected two documents: one it attributed on a
\* fuzzy match of 6/7, one it left without a company.
C4_Witness ==
  /\ session[1].pc = "returned"
  /\ session[1].result = <<1>>
  /\ \E d \in session[1].unmatched_docs, e \in session[1].unmatched_docs :
       /\ documents[d].company_id = 1
       /\ Eq(documents[d].confidence_score, <<6, 7>>)
       /\ documents[e].company_id = NoCompany

\* C5: a run is all-or-nothing.  Until its commit the store is what it was
\* when the run started; a run that raised has returned no count and has left
\* the store as it was; a run that returned has written all its attributions,
\* and has returned their number.
C5_AllOrNothing ==
  \A s \in Sessions :
    /\ session[s].pc \in {"matched", "raised"} =>
         /\ documents = session[s].before
         /\ session[s].result = <<>>
    /\ session[s].pc = "returned" =>
         /\ documents = Written(session[s].before, session[s].assigned)
         /\ session[s].result = <<Cardinality(session[s].assigned)>>

\* A run raised after its loop had set attributes on two documents.
C5_Witness ==
  /\ session[1].pc = "raised"
  /\ Cardinality(session[1].assigned) = 2

\* C6 as stated: of two runs in succession with the same limit the second
\* attributes strictly fewer documents than the first.
C6_StrictlyFewer ==
  (/\ previous.returned
   /\ session[1].pc = "returned"
   /\ session[1].limit = previous.limit)
    => session[1].result[1] < previous.result

\* C6: of two runs in succession the second attributes none of the
\* documents the first attributed, and none at all when the query of the
\* first returned every row that qualified.
C6_SecondRunSkipsAttributed ==
  (previous.returned /\ session[1].pc = "returned") =>
    /\ {a.id : a \in session[1].assigned} \cap previous.attributed = {}
    /\ \A d \in previous.attributed : d \notin session[1].unmatched_docs
    /\ previous.exhausted => session[1].result = <<0>>

\* The first run attributed a document of every row that qualified; the
\* second, with the same limit, selected a row and attributed none.
C6_Witness ==
  /\ previous.returned
  /\ previous.exhausted
  /\ previous.result > 0
  /\ session[1].pc = "returned"
  /\ session[1].limit = previous.limit
  /\ session[1].unmatched_docs # {}
  /\ session[1].result = <<0>>

\* ------------------------------------ ESGScorer.calculate_company_score
\* The function names Document, Company and doc.esg_topics.  They are read
\* as the two mapped classes of app/models.py and as the document's JSON
\* column of pillar relevances.  A nullable column is <<>> for NULL and
\* <<v>> for a value; sentiments, relevances and weights are written in
\* hundredths and stand for the binary64 number nearest to that decimal.

\* timedelta(days=365)
LookbackDays == 365

\* The literal 5.0, in hundredths.
Neutral == 500

\* The literal 0.3, in hundredths.
RelevanceFloor == 30

\* The table with one weight of Automotive mistyped: 0.45, 0.35, 0.25.
SectorWeightsMistyped == <<
  [sector |-> "Banking",    E |-> 20, S |-> 40, G |-> 40],
  [sector |-> "Automotive", E |-> 45, S |-> 35, G |-> 25],
  [sector |-> "default",    E |-> 33, S |-> 33, G |-> 34]
>>

\* Config.SECTOR_WEIGHTS, in hundredths.
SECTOR_WEIGHTS == <<
  [sector |-> "Oil & Gas",          E |-> 50, S |-> 30, G |-> 20],
  [sector |-> "Banking",            E |-> 20, S |-> 40, G |-> 40],
  [sector |-> "IT Services",        E |-> 30, S |-> 40, G |-> 30],
  [sector |-> "Pharmaceuticals",    E |-> 40, S |-> 40, G |-> 20],
  [sector |-> "Automotive",         E |-> 45, S |-> 35, G |-> 20],
  [sector |-> "Steel",              E |-> 50, S |-> 30, G |-> 20],
  [sector |-> "Cement",             E |-> 50, S |-> 30, G |-> 20],
  [sector |-> "Telecommunications", E |-> 25, S |-> 35, G |-> 40],
  [sector |-> "Power",              E |-> 50, S |-> 25, G |-> 25],
  [sector |-> "default",            E |-> 33, S |-> 33, G |-> 34]
>>

\* The lookup that falls back to the first profile of the table.
SectorWeightsOrFirst(sector) ==
  IF \E i \in DOMAIN SECTOR_WEIGHTS : SECTOR_WEIGHTS[i].sector = sector
    THEN SECTOR_WEIGHTS[CHOOSE i \in DOMAIN SECTOR_WEIGHTS : SECTOR_WEIGHTS[i].sector = sector]
    ELSE SECTOR_WEIGHTS[1]

\* self.sector_weights.get(sector, self.sector_weights["default"])
SectorWeights(sector) ==
  IF \E i \in DOMAIN SECTOR_WEIGHTS : SECTOR_WEIGHTS[i].sector = sector
    THEN SECTOR_WEIGHTS[CHOOSE i \in DOMAIN SECTOR_WEIGHTS : SECTOR_WEIGHTS[i].sector = sector]
    ELSE SECTOR_WEIGHTS[CHOOSE i \in DOMAIN SECTOR_WEIGHTS : SECTOR_WEIGHTS[i].sector = "default"]

\* Document.published_date >= cutoff_date, cutoff_date = now - 365 days.  The
\* column is a date and the cutoff a datetime: the date counts as its
\* midnight, so the day of the cutoff is in only when now is a midnight.
IsRecent(doc, now) ==
  /\ doc.published_date # <<>>
  /\ \/ doc.published_date[1] > now.day - LookbackDays
     \/ doc.published_date[1] = now.day - LookbackDays /\ now.midnight

\* The rows of the query: the company's documents since the cutoff.
RecentDocuments(docs, company_id, now) ==
  {d \in DOMAIN docs : docs[d].company_id = company_id /\ IsRecent(docs[d], now)}

\* if doc.esg_topics and doc.sentiment_score: neither NULL, nor an empty
\* mapping, nor a sentiment of 0.0.
HasSignals(doc) ==
  /\ doc.esg_topics # <<>>
  /\ DOMAIN doc.esg_topics[1] # {}
  /\ doc.sentiment_score # <<>>
  /\ Truthy(FlHundredths(doc.sentiment_score[1]))

\* (sentiment + 1) * 10
BaseScoreOfTen(sentiment) == FlMul(FlAdd(FlHundredths(sentiment), FlInt(1)), FlInt(10))

\* base_score = (doc.sentiment_score + 1) * 5
BaseScore(sentiment) == FlMul(FlAdd(FlHundredths(sentiment), FlInt(1)), FlInt(5))

\* doc.esg_topics.get(pillar, 0)
Relevance(topics, pillar) ==
  IF pillar \in DOMAIN topics THEN FlHundredths(topics[pillar]) ELSE FlInt(0)

\* if doc.esg_topics.get(pillar, 0) > 0.3: list.append(base_score * doc.esg_topics[pillar])
\* What is appended to the list of one pillar: nothing or one product.
Appended(base_score, relevance, floor) ==
  IF FlGt(relevance, floor) THEN <<FlMul(base_score, relevance)>> ELSE <<>>

AppendedOf(topics, base_score, floor) ==
  [E |-> Appended(base_score, Relevance(topics, "E"), floor),
   S |-> Appended(base_score, Relevance(topics, "S"), floor),
   G |-> Appended(base_score, Relevance(topics, "G"), floor)]

\* One turn of the loop: what the document appends to the three lists.
AppendedBy(doc, floor) ==
  IF HasSignals(doc)
    THEN AppendedOf(doc.esg_topics[1], BaseScore(doc.sentiment_score[1]), floor)
    ELSE [E |-> <<>>, S |-> <<>>, G |-> <<>>]

\* for doc in documents: the turns of the loop, in the order of the rows.
RECURSIVE Loop(_, _, _, _)
Loop(docs, rows, i, floor) ==
  IF i > Len(rows) THEN <<>>
  ELSE <<AppendedBy(docs[rows[i]], floor)>> \o Loop(docs, rows, i + 1, floor)

\* The list of one pillar after the loop.
RECURSIVE PillarScores(_, _, _)
PillarScores(turns, pillar, i) ==
  IF i > Len(turns) THEN <<>>
  ELSE turns[i][pillar] \o PillarScores(turns, pillar, i + 1)

\* The documents that appended to the list of one pillar.
RECURSIVE Contributors(_, _, _, _)
Contributors(turns, rows, pillar, i) ==
  IF i > Len(turns) THEN <<>>
  ELSE (IF turns[i][pillar] = <<>> THEN <<>> ELSE <<rows[i]>>)
       \o Contributors(turns, rows, pillar, i + 1)

\* The sum numpy takes of a short list: one element after the other.
RECURSIVE SumFrom(_, _, _)
SumFrom(list, i, sum) ==
  IF i > Len(list) THEN sum ELSE SumFrom(list, i + 1, FlAdd(sum, list[i]))

\* The sum of the list in place of its mean.
PillarSum(list) == SumFrom(list, 1, FlInt(0))

\* np.mean(list): the sum divided by the length.
PillarMean(list) == FlDivSmall(SumFrom(list, 1, FlInt(0)), Len(list))

\* A pillar without contributions scored 0.0.
MeanOrZero(list) ==
  IF list = <<>>
    THEN [value |-> FlInt(0), numpy |-> FALSE]
    ELSE [value |-> PillarMean(list), numpy |-> TRUE]

\* np.mean(list) if list else 5.0: a numpy.float64 or a Python float.
MeanOrNeutral(list) ==
  IF list = <<>>
    THEN [value |-> FlHundredths(Neutral), numpy |-> FALSE]
    ELSE [value |-> PillarMean(list), numpy |-> TRUE]

\* env_score * weights["E"] + social_score * weights["S"] + gov_score * weights["G"]
Composite(env, social, gov, weights) ==
  [value |-> FlAdd(FlAdd(FlMul(env.value, FlHundredths(weights.E)),
                         FlMul(social.value, FlHundredths(weights.S))),
                   FlMul(gov.value, FlHundredths(weights.G))),
   numpy |-> env.numpy \/ social.numpy \/ gov.numpy]

\* db_session.query(Company).get(company_id)
CompanyRows(company_id) == {i \in DOMAIN companies_table : companies_table[i].id = company_id}

\* composite = ... with the weights of the lookup
WeightedWith(contributors, env, social, gov, weights) ==
  [outcome |-> "returned", company_queried |-> TRUE,
   contributors |-> contributors, weights |-> <<weights>>,
   E |-> env, S |-> social, G |-> gov,
   composite |-> Composite(env, social, gov, weights)]

\* The lookup of the company and the weighting.  company.sector of a company
\* that is not there raises AttributeError.
Weighted(contributors, env, social, gov, company_rows) ==
  IF company_rows = {}
    THEN [outcome |-> "raised", company_queried |-> TRUE,
          contributors |-> contributors, weights |-> <<>>,
          E |-> env, S |-> social, G |-> gov, composite |-> env]
    ELSE WeightedWith(contributors, env, social, gov,
           SectorWeights(companies_table[CHOOSE i \in company_rows : TRUE].sector))

\* The three lists and their means.
Averaged(company_id, rows, turns) ==
  Weighted([E |-> Contributors(turns, rows, "E", 1),
            S |-> Contributors(turns, rows, "S", 1),
            G |-> Contributors(turns, rows, "G", 1)],
           MeanOrNeutral(PillarScores(turns, "E", 1)),
           MeanOrNeutral(PillarScores(turns, "S", 1)),
           MeanOrNeutral(PillarScores(turns, "G", 1)),
           CompanyRows(company_id))

\* The literal 5.0 of the early return.
NeutralScore == [value |-> FlHundredths(Neutral), numpy |-> FALSE]

\* calculate_company_score(company_id, db_session) over the rows of its
\* query, up to the values it is about to round.
calculate_company_score(company_id, docs, rows) ==
  IF rows = <<>>
    THEN [outcome |-> "returned", company_queried |-> FALSE,
          contributors |-> [E |-> <<>>, S |-> <<>>, G |-> <<>>], weights |-> <<>>,
          E |-> NeutralScore, S |-> NeutralScore, G |-> NeutralScore,
          composite |-> NeutralScore]
    ELSE Averaged(company_id, rows, Loop(docs, rows, 1, FlHundredths(RelevanceFloor)))

\* round(x, 2).  The round of a Python float is correctly rounded.  The round
\* of a numpy.float64 is numpy's in the releases that define __round__ on
\* their scalars and the one of float, which numpy.float64 inherits, in the
\* releases before; the repository pins no release.
Roundings == {"float", "numpy"}

Round2(x, rounding) ==
  IF x.numpy /\ rounding = "numpy" THEN NpRound2(x.value) ELSE PyRound2(x.value)

\* return {"E": round(env_score, 2), ...}; the early return and the
\* exception round nothing.
Presented(call, scores) ==
  [call EXCEPT
     !.outcome = scores.outcome,
     !.company_queried = scores.company_queried,
     !.contributors = scores.contributors,
     !.weights = scores.weights,
     !.E = IF scores.outcome = "raised" THEN 0 ELSE Round2(scores.E, call.rounding),
     !.S = IF scores.outcome = "raised" THEN 0 ELSE Round2(scores.S, call.rounding),
     !.G = IF scores.outcome = "raised" THEN 0 ELSE Round2(scores.G, call.rounding),
     !.composite = IF scores.outcome = "raised" THEN 0
                   ELSE Round2(scores.composite, call.rounding)]

\* ------------------------------------------- the scoring runs (SpecScore)

\* The documents of a store that is scored, for the company that owns most
\* of them.  Day 0 is the day of the scoring.
Rated(company_id, day, sentiment, topics) ==
  [doc_type |-> "news", title |-> <<>>, content |-> <<>>,
   company_id |-> company_id, confidence_score |-> None,
   published_date |-> day, sentiment_score |-> sentiment, esg_topics |-> topics]

EveryPillar == [E |-> 100, S |-> 100, G |-> 100]

ScoredKinds(owner) == <<
  \* the document of the worked example
  Rated(owner, <<-1>>, <<40>>, <<[E |-> 50, S |-> 10, G |-> 0]>>),
  \* a neutral sentiment
  Rated(owner, <<-1>>, <<0>>, <<[E |-> 50, S |-> 10, G |-> 0]>>),
  \* the best and the worst document
  Rated(owner, <<-1>>, <<100>>, <<EveryPillar>>),
  Rated(owner, <<-1>>, <<-100>>, <<EveryPillar>>),
  \* relevances at the floor and just above it, a pillar without an entry
  Rated(owner, <<-1>>, <<40>>, <<[S |-> 31, G |-> 30]>>),
  \* one signal missing
  Rated(owner, <<-1>>, <<>>, <<[E |-> 50, S |-> 10, G |-> 0]>>),
  Rated(owner, <<-1>>, <<40>>, <<>>),
  Rated(owner, <<-1>>, <<40>>, <<[p \in {} |-> 0]>>),
  \* before the cutoff, on its day, without a date, after the scoring
  Rated(owner, <<-1 - LookbackDays>>, <<100>>, <<EveryPillar>>),
  Rated(owner, <<-LookbackDays>>, <<100>>, <<EveryPillar>>),
  Rated(owner, <<>>, <<100>>, <<EveryPillar>>),
  Rated(owner, <<1>>, <<100>>, <<EveryPillar>>),
  \* a document of another company
  Rated(3, <<-1>>, <<100>>, <<EveryPillar>>)
>>

Owners == {1, 2}

ScoredStores ==
  {[d \in DocIds |-> ScoredKinds(owner)[k[d]]] :
     owner \in Owners, k \in KindsOf(Len(ScoredKinds(1)))}

\* datetime.now() at the scoring
Times == {[day |-> 0, midnight |-> TRUE], [day |-> 0, midnight |-> FALSE]}

ScoredIds == {c.id : c \in {Companies[i] : i \in DOMAIN Companies}}

\* The esg_scores table when the scorer is called: one row of an earlier
\* run, its four scores in hundredths.
StoredScores == <<
  [company_id |-> 1, score_date |-> -30, environmental_score |-> 500,
   social_score |-> 500, governance_score |-> 500, composite_score |-> 500]
>>

InitScore ==
  /\ company_cache = <<>>
  /\ name_variations = <<>>
  /\ documents \in ScoredStores
  /\ session = <<>>
  /\ previous = NoRun
  /\ text = <<>>
  /\ found = None
  /\ score = NoScore
  /\ companies_table = Companies
  /\ esg_scores = StoredScores
  /\ validation = NoValidation
  /\ mapping = NoMapping
  /\ refresh = NoRefresh
  /\ lookup = NoLookup
  /\ generated = NoNames

\* scorer.calculate_company_score(company_id, db) returns or raises.  .all()
\* without an order returns the rows in any order.
CalculateCompanyScore(company_id, now) ==
  /\ score.outcome = "none"
  /\ \E rows \in Orders(RecentDocuments(documents, company_id, now)) :
       \E scores \in {calculate_company_score(company_id, documents, rows)} :
         \E rounding \in Roundings :
           score' = Presented([NoScore EXCEPT !.company_id = company_id,
                                              !.at = now,
                                              !.rounding = rounding],
                              scores)
  /\ UNCHANGED <<company_cache, name_variations, documents, session, previous,
                 text, found>>
  \* the function builds no ESGScore, adds nothing to db_session and does
  \* not commit
  /\ UNCHANGED <<companies_table, esg_scores, validation, mapping, refresh, lookup, generated>>

NextScore ==
  \E company_id \in ScoredIds, now \in Times : CalculateCompanyScore(company_id, now)

SpecScore == InitScore /\ [][NextScore]_vars

\* ---------------------------------- claims about the scorer (SpecScore)

\* The four values returned, in hundredths.
FourValues == <<score.E, score.S, score.G, score.composite>>

\* The documents of the scored company in the lookback window of the call.
InWindow == RecentDocuments(documents, score.company_id, score.at)

\* The relevance a document states for a pillar, in hundredths; 0 without one.
StatedRelevance(doc, pillar) ==
  IF pillar \in DOMAIN doc.esg_topics[1] THEN doc.esg_topics[1][pillar] ELSE 0

Range(seq) == {seq[i] : i \in DOMAIN seq}

C8_EveryRatedDocumentContributes ==
  score.outcome = "returned" =>
    \A d \in InWindow, pillar \in {"E", "S", "G"} :
      d \in Range(score.contributors[pillar])
        <=> /\ documents[d].sentiment_score # <<>>
            /\ documents[d].esg_topics # <<>>
            /\ StatedRelevance(documents[d], pillar) > RelevanceFloor

TopComposite(weights, rounding) ==
  Round2(Composite([value |-> FlInt(10), numpy |-> TRUE],
                   [value |-> FlInt(10), numpy |-> TRUE],
                   [value |-> FlInt(10), numpy |-> TRUE], weights), rounding)

\* C10: each of the four values a call returns lies in [0, 10]; where the
\* three pillars reach 10.0, the composite stays within [0, 10] under every
\* profile of the weight table.
C10_ScoresWithinRange ==
  score.outcome = "returned" =>
    /\ \A v \in Range(FourValues) : 0 <= v /\ v <= 2 * Neutral
    /\ <<score.E, score.S, score.G>> = <<2 * Neutral, 2 * Neutral, 2 * Neutral>> =>
         \A i \in DOMAIN SECTOR_WEIGHTS :
           TopComposite(SECTOR_WEIGHTS[i], score.rounding) <= 2 * Neutral

\* Two documents of sentiment 1 and relevance 1 gave 10.0 for every pillar
\* and for the composite.
C10_Witness ==
  /\ score.outcome = "returned"
  /\ Len(score.contributors.E) = 2
  /\ FourValues = <<2 * Neutral, 2 * Neutral, 2 * Neutral, 2 * Neutral>>

\* 1.0 + 2^-52 and 1.0 - 2^-53, the neighbours of 1.0 in binary64.
AboveOne == [neg |-> FALSE, m |-> BigAdd(ShiftLeft(<<1>>, 52), <<1>>), e |-> -52]
BelowOne == [neg |-> FALSE, m |-> BigSub(ShiftLeft(<<1>>, 53), <<1>>), e |-> -53]

\* weights["E"] + weights["S"] + weights["G"] in binary64 is 1.0 to within
\* one unit in the last place.
SumsToOne(weights) ==
  LET sum == FlAdd(FlAdd(FlHundredths(weights.E), FlHundredths(weights.S)),
                   FlHundredths(weights.G))
  IN  ~FlGt(sum, AboveOne) /\ ~FlGt(BelowOne, sum)

\* A profile has the three pillars and no other, no negative weight, and
\* its weights sum to 1.0: to 100 in hundredths, and to 1.0 as floats.
IsProfile(weights) ==
  /\ DOMAIN weights = {"sector", "E", "S", "G"}
  /\ weights.E >= 0 /\ weights.S >= 0 /\ weights.G >= 0
  /\ weights.E + weights.S + weights.G = 100
  /\ SumsToOne(weights)

\* The table has a 'default' entry and each of its entries is a profile.
EveryEntryIsProfile ==
  /\ \E i \in DOMAIN SECTOR_WEIGHTS : SECTOR_WEIGHTS[i].sector = "default"
  /\ \A i \in DOMAIN SECTOR_WEIGHTS : IsProfile(SECTOR_WEIGHTS[i])

\* C11: the weight table has a 'default' entry, and every entry of the table,
\* as every profile a call weighted its pillars with, has exactly the keys E,
\* S and G, with weights that are not negative and sum to 1.0.
C11_WeightsSumToOne ==
  /\ EveryEntryIsProfile
  /\ score.weights # <<>> => score.weights[1] \in Range(SECTOR_WEIGHTS)

\* A call weighted the pillars of a bank with the profile of its sector.
C11_Witness ==
  /\ score.outcome = "returned"
  /\ score.weights # <<>>
  /\ score.weights[1].sector = "Banking"
  /\ score.weights[1].E + score.weights[1].S + score.weights[1].G = 100

\* The sector of the company a call scored: NoSector for NULL.
ScoredSector ==
  companies_table[CHOOSE i \in CompanyRows(score.company_id) : TRUE].sector

TableSectors == {SECTOR_WEIGHTS[i].sector : i \in DOMAIN SECTOR_WEIGHTS}

C12_WitnessUnknownSector ==
  /\ score.outcome = "returned"
  /\ score.company_queried
  /\ ScoredSector = "Textiles"
  /\ score.weights = <<SectorWeights("default")>>

\* C16 as stated: every call that returned added one row for its company to
\* esg_scores, with the four scores it returned, and left the rows that were
\* there as they were.
C16_RunAppendsOneScore ==
  score.outcome = "returned" =>
    /\ Len(esg_scores) = Len(StoredScores) + 1
    /\ SubSeq(esg_scores, 1, Len(StoredScores)) = StoredScores
    /\ esg_scores[Len(esg_scores)].company_id = score.company_id
    /\ esg_scores[Len(esg_scores)].composite_score = score.composite

\* ---------------------------- EntityMatcher.validate_existing_matches

\* .limit(200) and content[:1000].  The lengths of the model are scaled: a
\* store of the model can hold more attributed documents than the sample,
\* and a content can be longer than the slice, as the real ones can.
ValidationSample == 2
ValidationTextLen == 10

\* db.query(Document).filter(Document.company_id.isnot(None)).limit(200).all():
\* any ValidationSample of the attributed rows, all of them when there are no
\* more, in any order.
MatchedDocs(docs) ==
  LET matched == {d \in DOMAIN docs : docs[d].company_id # NoCompany}
  IN  UNION {Orders(sel) :
               sel \in {x \in SUBSET matched :
                          Cardinality(x) = Min(ValidationSample, Cardinality(matched))}}

\* The text of the title alone.
TitleToCheck(doc) == doc.title

\* f"{doc.title or ''} {doc.content[:1000] if doc.content else ''}"
TextToCheck(doc) == doc.title \o <<" ">> \o Take(doc.content, ValidationTextLen)

\* company_info = self.company_cache.get(doc.company_id, {}), the name and the
\* symbol of it, '' for each when the cache has no such company, and
\* found_mention: some variation generated from them, lower-cased, is in the
\* lower-cased text.
FoundMention(cache, doc) ==
  LET known          == doc.company_id \in DOMAIN cache
      company_name   == IF known THEN cache[doc.company_id].name ELSE <<>>
      company_symbol == IF known THEN cache[doc.company_id].symbol ELSE <<>>
  IN  \E variation \in generate_name_variations(company_name, company_symbol) :
        Contains(Lower(TextToCheck(doc)), Lower(variation))

\* The counting that puts a document without a mention in the reserved bucket.
TallyQuestionable(validation_stats, found_mention) ==
  [validation_stats EXCEPT
     !.total_checked = @ + 1,
     !.confirmed_matches = IF found_mention THEN @ + 1 ELSE @,
     !.questionable_matches = IF found_mention THEN @ ELSE @ + 1]

\* One turn of the loop on validation_stats.
Tally(validation_stats, found_mention) ==
  [validation_stats EXCEPT
     !.total_checked = @ + 1,
     !.confirmed_matches = IF found_mention THEN @ + 1 ELSE @,
     !.no_mention_found = IF found_mention THEN @ ELSE @ + 1]

\* for doc in matched_docs, from the n-th document on.
RECURSIVE ValidationLoop(_, _, _, _, _)
ValidationLoop(run, cache, docs, matched_docs, n) ==
  IF n > Len(matched_docs) THEN run
  ELSE LET found_mention == FoundMention(cache, docs[matched_docs[n]])
       IN  ValidationLoop(
             [run EXCEPT
                !.validation_stats = Tally(@, found_mention),
                !.mentioned = IF found_mention THEN @ \cup {matched_docs[n]} ELSE @],
             cache, docs, matched_docs, n + 1)

\* A validation that takes the attribution off a document without a mention.
CorrectedStore(docs, run) ==
  [d \in DOMAIN docs |->
     IF d \in Range(run.matched_docs) \ run.mentioned
       THEN [docs[d] EXCEPT !.company_id = NoCompany, !.confidence_score = None]
       ELSE docs[d]]

\* The store after the call: the function sets no attribute of a document
\* and does not commit.
ValidatedStore(docs, run) == docs

\* matcher.validate_existing_matches() returns validation_stats.
ValidateExistingMatches ==
  /\ validation.pc = "idle"
  /\ \E matched_docs \in MatchedDocs(documents) :
       \E run \in {ValidationLoop([NoValidation EXCEPT !.pc = "returned",
                                                       !.matched_docs = matched_docs],
                                   company_cache, documents, matched_docs, 1)} :
         /\ validation' = run
         /\ documents' = ValidatedStore(documents, run)
  /\ UNCHANGED <<company_cache, name_variations, session, previous, text, found, score>>
  /\ UNCHANGED <<companies_table, esg_scores, mapping, refresh, lookup, generated>>

\* A stored news document with its attribution.
Attributed(company_id, confidence_score, title, content) ==
  [doc_type |-> "news", title |-> title, content |-> content,
   company_id |-> company_id, confidence_score |-> confidence_score,
   published_date |-> <<>>, sentiment_score |-> <<>>, esg_topics |-> <<>>]

\* What a stored document can be when its attribution is validated.
ValidatedKinds == <<
  \* attributed to company 1, whose symbol is a word of the title
  Attributed(1, ExactConfidence, <<"A", "B", "C", " ", "u", "p">>, <<>>),
  \* attributed to company 1 by a fuzzy match: the symbol is part of a word
  Attributed(1, <<6, 7>>, <<"A", "b", "c", "d">>, <<>>),
  \* attributed to company 1, the symbol in the content, within the slice
  Attributed(1, ExactConfidence, <<"u", "p">>, <<"x", " ", " ", "a", "b", "c">>),
  \* attributed to company 1, the symbol in the content, beyond the slice
  Attributed(1, None, <<"u", "p">>,
             <<"x", " ", "x", " ", "x", " ", "x", " ", "x", " ", "a", "b", "c">>),
  \* attributed to company 1, which the text does not name
  Attributed(1, None, <<"u", "p">>, <<>>),
  \* attributed to company 2, inactive and so not in the cache, and not named
  Attributed(2, None, <<"A", "b", "c", "d">>, <<>>),
  \* not attributed
  Attributed(NoCompany, None, <<"A", "B", "C", " ", "u", "p">>, <<>>)
>>

\* The stores validated hold one document more than the sample.
ValidatedIds == 1..(ValidationSample + NumDocs - 1)

ValidatedStores ==
  {[d \in ValidatedIds |-> ValidatedKinds[k[d]]] :
     k \in {f \in [ValidatedIds -> DOMAIN ValidatedKinds] :
              \A d \in ValidatedIds : d + 1 \in ValidatedIds => f[d] <= f[d + 1]}}

\* The store and the matcher after EntityMatcher() is constructed.
InitValidate ==
  /\ company_cache = LoadedCache
  /\ name_variations \in LoadedIndexes
  /\ documents \in ValidatedStores
  /\ session = [s \in Sessions |-> IdleSession]
  /\ previous = NoRun
  /\ text = <<>>
  /\ found = None
  /\ score = NoScore
  /\ companies_table = Companies
  /\ esg_scores = <<>>
  /\ validation = NoValidation
  /\ mapping = NoMapping
  /\ refresh = NoRefresh
  /\ lookup = NoLookup
  /\ generated = NoNames

NextValidate == ValidateExistingMatches

SpecValidate == InitValidate /\ [][NextValidate]_vars

\* ------------------------------ claims about the validation (SpecValidate)

\* The stored company a document is attributed to.
AssignedCompany(doc) ==
  companies_table[CHOOSE i \in DOMAIN companies_table :
                    companies_table[i].id = doc.company_id]

\* The name or the symbol of the assigned company occurs in the text that is
\* checked, as a word or words of it, in any case of the letters.
IsNamed(doc) ==
  \/ RegexSearch(AssignedCompany(doc).name, TextToCheck(doc))
  \/ RegexSearch(AssignedCompany(doc).symbol, TextToCheck(doc))

\* C13 as stated: a document of the sample whose text names neither the name
\* nor the symbol of its company is counted in no_mention_found and not in
\* confirmed_matches, be the company in the cache or not.
C13_UnnamedCompanyIsNoMention ==
  validation.pc = "returned" =>
    /\ \A n \in DOMAIN validation.matched_docs :
         ~IsNamed(documents[validation.matched_docs[n]]) =>
           validation.matched_docs[n] \notin validation.mentioned
    /\ validation.validation_stats.no_mention_found >=
         Cardinality({n \in DOMAIN validation.matched_docs :
                        ~IsNamed(documents[validation.matched_docs[n]])})

\* C14: a call of validate_existing_matches changes no document, and neither
\* the variation index, the company cache nor the companies table.
C14_ValidationChangesNothing ==
  [][validation' # validation =>
       /\ documents' = documents
       /\ name_variations' = name_variations
       /\ company_cache' = company_cache
       /\ companies_table' = companies_table]_vars

\* A validation found a document without a mention, and the document is
\* still attributed to the company.
C14_Witness ==
  /\ validation.pc = "returned"
  /\ validation.validation_stats.no_mention_found > 0
  /\ \E n \in DOMAIN validation.matched_docs :
       /\ validation.matched_docs[n] \notin validation.mentioned
       /\ documents[validation.matched_docs[n]].company_id = 1

\* C15: in the result questionable_matches is 0, total_checked is
\* confirmed_matches + no_mention_found and is the number of documents
\* sampled, which are attributed documents, each once, as many as there are
\* up to the size of the sample.
C15_BucketsPartitionTheSample ==
  validation.pc = "returned" =>
    LET stats   == validation.validation_stats
        sampled == Range(validation.matched_docs)
        matched == {d \in DOMAIN documents : documents[d].company_id # NoCompany}
    IN  /\ stats.questionable_matches = 0
        /\ stats.total_checked = stats.confirmed_matches + stats.no_mention_found
        /\ stats.total_checked = Len(validation.matched_docs)
        /\ stats.total_checked = Min(ValidationSample, Cardinality(matched))
        /\ Cardinality(sampled) = Len(validation.matched_docs)
        /\ sampled \subseteq matched
        /\ stats.confirmed_matches = Cardinality(validation.mentioned)
        /\ validation.mentioned \subseteq sampled

\* A full sample of a store with more attributed documents, one of them in
\* each bucket.
C15_Witness ==
  /\ validation.pc = "returned"
  /\ \A d \in DOMAIN documents : documents[d].company_id # NoCompany
  /\ validation.validation_stats.total_checked = ValidationSample
  /\ validation.validation_stats.confirmed_matches > 0
  /\ validation.validation_stats.no_mention_found > 0

\* ------------------ EntityMatcher.add_manual_mapping, refresh_company_cache

\* db.query(Company).filter(Company.symbol == company_symbol).first(): <<>>
\* for None, <<id>> for the company; symbol is unique.  The query does not
\* test is_active.
CompanyOfSymbol(table, company_symbol) ==
  IF \E i \in DOMAIN table : table[i].symbol = company_symbol
    THEN <<table[CHOOSE i \in DOMAIN table : table[i].symbol = company_symbol].id>>
    ELSE <<>>

\* The mapping that is entered without the test of the company.
MappedWithoutTest(index, text_pattern, company) ==
  DictSet(index, Lower(text_pattern), IF company = <<>> THEN NoCompany ELSE company[1])

\* if company: self.name_variations[text_pattern.lower()] = company.id
Mapped(index, text_pattern, company) ==
  IF company # <<>> THEN DictSet(index, Lower(text_pattern), company[1]) ELSE index

\* What the caller gets: both branches only log and fall off the end of the
\* function, which returns None.
MappingOutcome(company) == [raised |-> FALSE, value |-> "None"]

\* matcher.add_manual_mapping(text_pattern, company_symbol) returns.  One
\* mapping is followed, made before the refresh.
AddManualMapping(text_pattern, company_symbol) ==
  /\ mapping.pc = "idle"
  /\ refresh.pc = "idle"
  /\ ~refresh.completed
  /\ \E company \in {CompanyOfSymbol(companies_table, company_symbol)} :
       /\ name_variations' = Mapped(name_variations, text_pattern, company)
       /\ mapping' = [pc |-> "returned", text_pattern |-> text_pattern,
                      company_symbol |-> company_symbol, company |-> company,
                      outcome |-> MappingOutcome(company)]
  /\ UNCHANGED <<company_cache, documents, session, previous, text, found, score>>
  /\ UNCHANGED <<companies_table, esg_scores, validation, refresh, lookup, generated>>

\* self.company_cache.clear().  One refresh is followed.
RefreshClearCache ==
  /\ refresh.pc = "idle"
  /\ ~refresh.completed
  /\ company_cache' = <<>>
  /\ refresh' = [NoRefresh EXCEPT !.pc = "clear", !.old = name_variations]
  /\ UNCHANGED <<name_variations, documents, session, previous, text, found, score>>
  /\ UNCHANGED <<companies_table, esg_scores, validation, mapping, lookup, generated>>

\* A refresh that leaves the entries of the dict in place.
NotCleared(index) == index

\* dict.clear()
Cleared(index) == <<>>

\* self.name_variations.clear()
RefreshClearVariations ==
  /\ refresh.pc = "clear"
  /\ name_variations' = Cleared(name_variations)
  /\ refresh' = [refresh EXCEPT !.pc = "load"]
  /\ UNCHANGED <<company_cache, documents, session, previous, text, found, score>>
  /\ UNCHANGED <<companies_table, esg_scores, validation, mapping, lookup, generated>>

\* _load_companies: companies = db.query(Company).filter(is_active == True).all()
LoadQuery ==
  /\ refresh.pc = "load"
  /\ refresh' = [refresh EXCEPT !.pc = "companies", !.n = 1,
                                 !.companies = SelectSeq(companies_table, IsActive)]
  /\ UNCHANGED <<company_cache, name_variations, documents, session, previous,
                 text, found, score>>
  /\ UNCHANGED <<companies_table, esg_scores, validation, mapping, lookup, generated>>

\* self.company_cache[company.id] = {...} of a dict kept as a function
CacheSet(cache, company) ==
  [id \in DOMAIN cache \cup {company.id} |->
     IF id = company.id
       THEN [symbol |-> company.symbol, name |-> company.name, sector |-> company.sector]
       ELSE cache[id]]

\* for company in companies: the entry of the cache and the list of the
\* variations, whose order is taken as the loop over it goes.
LoadCompany ==
  /\ refresh.pc = "companies"
  /\ refresh.n <= Len(refresh.companies)
  /\ company_cache' = CacheSet(company_cache, refresh.companies[refresh.n])
  /\ refresh' = [refresh EXCEPT
                   !.pc = "variations",
                   !.variations = generate_name_variations(
                                    refresh.companies[refresh.n].name,
                                    refresh.companies[refresh.n].symbol)]
  /\ UNCHANGED <<name_variations, documents, session, previous, text, found, score>>
  /\ UNCHANGED <<companies_table, esg_scores, validation, mapping, lookup, generated>>

\* for variation in variations: self.name_variations[variation.lower()] = company.id
LoadVariation ==
  /\ refresh.pc = "variations"
  /\ \E variation \in refresh.variations :
       /\ name_variations' = DictSet(name_variations, Lower(variation),
                                     refresh.companies[refresh.n].id)
       /\ refresh' = [refresh EXCEPT !.variations = @ \ {variation}]
  /\ UNCHANGED <<company_cache, documents, session, previous, text, found, score>>
  /\ UNCHANGED <<companies_table, esg_scores, validation, mapping, lookup, generated>>

\* The variations of the company are through: the next company.
LoadNextCompany ==
  /\ refresh.pc = "variations"
  /\ refresh.variations = {}
  /\ refresh' = [refresh EXCEPT !.pc = "companies", !.n = @ + 1]
  /\ UNCHANGED <<company_cache, name_variations, documents, session, previous,
                 text, found, score>>
  /\ UNCHANGED <<companies_table, esg_scores, validation, mapping, lookup, generated>>

\* The companies are through: db.close(), and refresh_company_cache returns.
RefreshReturn ==
  /\ refresh.pc = "companies"
  /\ refresh.n > Len(refresh.companies)
  /\ refresh' = [refresh EXCEPT !.pc = "idle", !.completed = TRUE]
  /\ UNCHANGED <<company_cache, name_variations, documents, session, previous,
                 text, found, score>>
  /\ UNCHANGED <<companies_table, esg_scores, validation, mapping, lookup, generated>>

\* The text another thread looks up, the patterns and the symbols of the
\* manual mappings (a new key and a key of the index, a symbol of the table
\* and one that is not), and the companies whose is_active the store changes.
LookupTexts == {<<"A", "B", "C", " ", "u", "p">>}
MappingPatterns == {<<"A", "b", "c", " ", "c", "o">>, <<"A", "B", "C">>}
MappingSymbols == {<<"A", "B", "C">>, <<"Z", "Z">>}
Switched == {1, 3}

\* The entries of a dict, without their order.
Items(index) == {<<index[n].variation, index[n].company_id>> : n \in DOMAIN index}

\* matcher.find_company_in_text(text) on another thread, between two steps of
\* the matcher: it reads self.name_variations as it is then.  One lookup is
\* followed; the entries it found in the dict are kept, and the entries the
\* dict had when the refresh in progress began.
Lookup(t) ==
  /\ ~lookup.called
  /\ lookup' = [called |-> TRUE, text |-> t, refresh_pc |-> refresh.pc,
                name_variations |-> Items(name_variations),
                old |-> Items(refresh.old),
                match |-> find_company_in_text(name_variations, t)]
  /\ UNCHANGED <<company_cache, name_variations, documents, session, previous,
                 text, found, score>>
  /\ UNCHANGED <<companies_table, esg_scores, validation, mapping, refresh, generated>>

\* The store sets is_active of a company, before the refresh.
SetActive(id, is_active) ==
  /\ refresh.pc = "idle"
  /\ ~refresh.completed
  /\ \E i \in DOMAIN companies_table :
       /\ companies_table[i].id = id
       /\ companies_table[i].is_active # is_active
       /\ companies_table' = [companies_table EXCEPT ![i].is_active = is_active]
  /\ UNCHANGED <<company_cache, name_variations, documents, session, previous,
                 text, found, score>>
  /\ UNCHANGED <<esg_scores, validation, mapping, refresh, lookup, generated>>

\* The store and the matcher after EntityMatcher() is constructed.
InitIndex ==
  /\ company_cache = LoadedCache
  /\ name_variations = CHOOSE index \in LoadedIndexes : TRUE
  /\ documents = [d \in DocIds |-> DocumentKinds[1]]
  /\ session = [s \in Sessions |-> IdleSession]
  /\ previous = NoRun
  /\ text = <<>>
  /\ found = None
  /\ score = NoScore
  /\ companies_table = Companies
  /\ esg_scores = <<>>
  /\ validation = NoValidation
  /\ mapping = NoMapping
  /\ refresh = NoRefresh
  /\ lookup = NoLookup
  /\ generated = NoNames

NextIndex ==
  \/ \E text_pattern \in MappingPatterns, company_symbol \in MappingSymbols :
       AddManualMapping(text_pattern, company_symbol)
  \/ RefreshClearCache
  \/ RefreshClearVariations
  \/ LoadQuery
  \/ LoadCompany
  \/ LoadVariation
  \/ LoadNextCompany
  \/ RefreshReturn
  \/ \E t \in LookupTexts : Lookup(t)
  \/ \E id \in Switched, is_active \in BOOLEAN : SetActive(id, is_active)

SpecIndex == InitIndex /\ [][NextIndex]_vars

\* ------------------------------------ claims about the index (SpecIndex)

\* The keys of the index a company gives.
KeysOf(company) ==
  {Lower(variation) :
     variation \in generate_name_variations(company.name, company.symbol)}

\* The entries of the index of the active companies of a table: each key of
\* each of them, with the last of them in the table that gives the key.
ExpectedItems(table) ==
  LET active == {n \in DOMAIN table : table[n].is_active}
  IN  UNION {{<<key, table[n].id>> :
                key \in {k \in KeysOf(table[n]) :
                           \A m \in active : m > n => k \notin KeysOf(table[m])}} :
             n \in active}

\* The cache of the active companies of a table.
ExpectedCache(table) ==
  [id \in {table[n].id : n \in {m \in DOMAIN table : table[m].is_active}} |->
     LET company == table[CHOOSE n \in DOMAIN table : table[n].id = id]
     IN  [symbol |-> company.symbol, name |-> company.name, sector |-> company.sector]]

\* C17: a call of add_manual_mapping with a symbol of no stored company
\* changes neither the variation index, where it adds and overwrites no
\* entry, nor the company cache, nor the stored tables.
C17_UnknownSymbolChangesNothing ==
  [][(mapping.pc = "idle" /\ mapping'.pc = "returned" /\ mapping'.company = <<>>) =>
       /\ name_variations' = name_variations
       /\ company_cache' = company_cache
       /\ documents' = documents
       /\ companies_table' = companies_table
       /\ esg_scores' = esg_scores]_vars

\* The pattern 'ABC' was mapped to a symbol of no company, and the key 'abc'
\* of the index still leads to company 1.
C17_Witness ==
  /\ mapping.pc = "returned"
  /\ mapping.company = <<>>
  /\ mapping.text_pattern = <<"A", "B", "C">>
  /\ refresh.pc = "idle" /\ ~refresh.completed
  /\ <<<<"a", "b", "c">>, 1>> \in Items(name_variations)

\* C18 as stated: what the caller of add_manual_mapping gets for a symbol of
\* no stored company differs from what it gets for a symbol of a company.
C18_LookupFailureIsReported ==
  (mapping.pc = "returned" /\ mapping.company = <<>>) =>
    \A i \in DOMAIN companies_table :
      mapping.outcome # MappingOutcome(<<companies_table[i].id>>)

\* C19 as stated: a lookup made while a refresh is in progress finds in the
\* index either the entries it had when the refresh began or the entries of
\* the index of the active companies.
C19_LookupSeesCompleteIndex ==
  (lookup.called /\ lookup.refresh_pc # "idle") =>
    lookup.name_variations \in {lookup.old, ExpectedItems(companies_table)}

\* C20: when refresh_company_cache has returned, the index holds the entries
\* generated for the active companies and no other, each key once, and the
\* cache holds the active companies and no other.
C20_RefreshRebuildsFromActive ==
  refresh.completed =>
    /\ Items(name_variations) = ExpectedItems(companies_table)
    /\ Len(name_variations) = Cardinality(Items(name_variations))
    /\ company_cache = ExpectedCache(companies_table)

\* The index held a manual mapping and the entries of company 1 when the
\* refresh began; company 1 was no longer active and company 3 was: the
\* index has entries, all of them of company 3.
C20_Witness ==
  /\ refresh.completed
  /\ mapping.pc = "returned" /\ mapping.company = <<1>>
  /\ <<<<"a", "b", "c", " ", "c", "o">>, 1>> \in Items(refresh.old)
  /\ <<<<"a", "b", "c">>, 1>> \in Items(refresh.old)
  /\ name_variations # <<>>
  /\ \A item \in Items(name_variations) : item[2] = 3
  /\ DOMAIN company_cache = {3}

\* ------------------------------------------------ lookups, order by order

\* The characters of the texts looked up order by order, a punctuation mark
\* among them, and the variations of the indexes.
OrderChars == {"a", "b", ",", " "}
OrderVariations == {<<"a">>, <<"b">>}

InitOrder ==
  /\ company_cache = <<>>
  /\ name_variations \in IndexesOver(OrderVariations)
  /\ documents = <<>>
  /\ session = <<>>
  /\ previous = NoRun
  /\ text \in StringsUpTo(OrderChars, MaxTextLen)
  /\ found = Pending
  /\ score = NoScore
  /\ companies_table = <<>>
  /\ esg_scores = <<>>
  /\ validation = NoValidation
  /\ mapping = NoMapping
  /\ refresh = NoRefresh
  /\ lookup = NoLookup
  /\ generated = NoNames

SpecOrder == InitOrder /\ [][NextFind]_vars

\* The same dict with its entries in every order.
Reordered(index) == Orders({index[n] : n \in DOMAIN index})

\* The companies of the candidates that reach the confidence c.
CompaniesReaching(index, text_lower, c) ==
  {index[n].company_id : n \in
     {m \in DOMAIN index :
        \/ ExactMatch(index[m].variation, text_lower) /\ Eq(ExactConfidence, c)
        \/ \E r \in FuzzyCandidates(index[m].variation, text_lower) : Eq(r, c)}}

\* C21 as stated: for any two orders of the same index and the same text,
\* find_company_in_text returns a match in both or in neither, with the same
\* confidence, and the same company unless candidates of different companies
\* reach the maximum confidence.
C21_ResultIndependentOfOrder ==
  found # Pending =>
    \A other \in Reordered(name_variations) :
      LET result == find_company_in_text(other, text)
      IN  /\ (found = None) <=> (result = None)
          /\ found # None =>
               /\ Eq(found[3], result[3])
               /\ found[1] # result[1] =>
                    Cardinality(CompaniesReaching(name_variations, Lower(text),
                                                  found[3])) > 1

\* --------------------------------------------------- the 0.7 and 0.8 floors

\* The similarities of every window of the text with every variation.
Similarities(index, text_lower) ==
  {Ratio(index[n].variation, Phrases(text_lower)[k]) :
     n \in DOMAIN index, k \in DOMAIN Phrases(text_lower)}

\* Some match with a confidence above 0.7 and not above 0.8 is returned for a
\* text and an index of the lookups.
MatchBetweenFloors ==
  \E index \in IndexesOver(FindVariations), t \in StringsUpTo(FindChars, MaxTextLen) :
    LET match == find_company_in_text(index, t)
    IN  match # None /\ Gt(match[3], AcceptFloor) /\ ~IsAssigned(match)

\* C22 as stated: there is a text and an index for which find_company_in_text
\* returns a match with a confidence in (0.7, 0.8], which the batch refuses;
\* read once a lookup has returned.
C22_FloorsObservablyDistinct == found # Pending => MatchBetweenFloors

\* C22, amended: every match find_company_in_text returns passes the test of
\* the batch, confidence > 0.8, so that the batch attributes every document
\* for which a match is returned and a floor of 0.7 in its place would
\* attribute the same documents.
C22_ReturnedMatchPassesBatchFloor ==
  (found # Pending /\ found # None) =>
    /\ IsAssigned(found)
    /\ Gt(found[3], AcceptFloor) <=> Gt(found[3], BatchFloor)

\* The best window of the text has a similarity in (0.7, 0.8], no variation
\* matches exactly, and no match is returned.
C22_Witness ==
  /\ found = None
  /\ text # <<>>
  /\ \A n \in DOMAIN name_variations :
       ~ExactMatch(name_variations[n].variation, Lower(text))
  /\ \E r \in Similarities(name_variations, Lower(text)) :
       /\ Gt(r, AcceptFloor) /\ ~Gt(r, BatchFloor)
       /\ \A q \in Similarities(name_variations, Lower(text)) : ~Gt(q, r)

\* --------------------------------------------------- the lookback window

\* The document is of the company scored and published within the 365 days up
\* to and including the day of the scoring.
InLookback(doc) ==
  /\ doc.company_id = score.company_id
  /\ doc.published_date # <<>>
  /\ doc.published_date[1] >= score.at.day - LookbackDays
  /\ doc.published_date[1] <= score.at.day

\* C23 as stated: a document published more than 365 days before the scoring,
\* after it, or without a date contributes to no pillar, and where the
\* company has no other document the call returns the neutral baseline.
C23_OnlyLookbackDocumentsCount ==
  score.outcome = "returned" =>
    /\ \A pillar \in {"E", "S", "G"} :
         \A d \in Range(score.contributors[pillar]) : InLookback(documents[d])
    /\ (\A d \in DocIds : ~InLookback(documents[d])) =>
         FourValues = <<Neutral, Neutral, Neutral, Neutral>>

\* ------------------------------------------ _generate_name_variations, alone

\* The words of the company names: a plain word, two suffixes of the list,
\* and two words that begin like the suffix 'Co'.
NameWords == {
  <<"A", "b">>,
  <<"C", "o">>,
  <<"L", "t", "d">>,
  <<"C", "o", "r", "p">>,
  <<"C", "o", "x">>
}

\* The names of one to n words, single spaces between the words.
RECURSIVE NamesUpTo(_)
NamesUpTo(n) ==
  IF n = 1 THEN NameWords
  ELSE NamesUpTo(n - 1)
       \cup {name \o <<" ">> \o w : name \in NamesUpTo(n - 1), w \in NameWords}

InitNames ==
  /\ company_cache = <<>>
  /\ name_variations = <<>>
  /\ documents = <<>>
  /\ session = <<>>
  /\ previous = NoRun
  /\ text = <<>>
  /\ found = Pending
  /\ score = NoScore
  /\ companies_table = <<>>
  /\ esg_scores = <<>>
  /\ validation = NoValidation
  /\ mapping = NoMapping
  /\ refresh = NoRefresh
  /\ lookup = NoLookup
  /\ \E company_name \in NamesUpTo(MaxNameWords) :
       generated = [NoNames EXCEPT !.company_name = company_name,
                                   !.symbol = <<"S">>]

\* matcher._generate_name_variations(company_name, symbol) returns.
GenerateNameVariations ==
  /\ ~generated.called
  /\ generated' = [generated EXCEPT
       !.called = TRUE,
       !.base_name = BaseName(generated.company_name),
       !.variations = generate_name_variations(generated.company_name,
                                               generated.symbol)]
  /\ UNCHANGED <<company_cache, name_variations, documents, session, previous,
                 text, found, score>>
  /\ UNCHANGED <<companies_table, esg_scores, validation, mapping, refresh, lookup>>

NextNames == GenerateNameVariations

SpecNames == InitNames /\ [][NextNames]_vars

\* C24 as stated: for a name that ends with a space and a suffix of the list
\* the base name followed by the space and that suffix is the name; for any
\* other name the base name is the name; the variations hold the symbol, the
\* name and the base name.
C24_BaseNameStripsOneSuffix ==
  generated.called =>
    /\ \A n \in DOMAIN Suffixes :
         EndsWith(generated.company_name, <<" ">> \o Suffixes[n]) =>
           generated.base_name \o <<" ">> \o Suffixes[n] = generated.company_name
    /\ (\A n \in DOMAIN Suffixes :
          ~EndsWith(generated.company_name, <<" ">> \o Suffixes[n])) =>
         generated.base_name = generated.company_name
    /\ {generated.symbol, generated.company_name, generated.base_name}
         \subseteq generated.variations

\* ------------------------------------------------- _load_companies, alone

\* Companies with a variation in common: the symbol of company 2 is the base
\* name of company 1, in lower case; company 3, not active, has the name of
\* company 2 as its symbol.
SharedCompanies == {
  [id |-> 1, symbol |-> <<"A", "L">>, name |-> <<"A", "b", " ", "L", "t", "d">>,
   sector |-> "Banking", is_active |-> TRUE],
  [id |-> 2, symbol |-> <<"A", "B">>, name |-> <<"X", "y">>,
   sector |-> NoSector, is_active |-> TRUE],
  [id |-> 3, symbol |-> <<"X", "Y">>, name |-> <<"Q">>,
   sector |-> "Textiles", is_active |-> FALSE]
}

\* EntityMatcher() has set both dicts to {} and calls _load_companies; the
\* query without an order returns the rows of the table in any order.
InitLoad ==
  /\ company_cache = <<>>
  /\ name_variations = <<>>
  /\ documents = <<>>
  /\ session = <<>>
  /\ previous = NoRun
  /\ text = <<>>
  /\ found = None
  /\ score = NoScore
  /\ companies_table \in Orders(SharedCompanies)
  /\ esg_scores = <<>>
  /\ validation = NoValidation
  /\ mapping = NoMapping
  /\ refresh = [NoRefresh EXCEPT !.pc = "load"]
  /\ lookup = NoLookup
  /\ generated = NoNames

NextLoad ==
  \/ LoadQuery
  \/ LoadCompany
  \/ LoadVariation
  \/ LoadNextCompany
  \/ RefreshReturn

SpecLoad == InitLoad /\ [][NextLoad]_vars

\* The positions of the index that hold the key.
PositionsOf(index, key) == {i \in DOMAIN index : index[i].variation = key}

\* C25: when _load_companies has returned, every lower-cased variation of
\* every active company is a key of the index exactly once, and its entry
\* holds the id of the last company loaded that generates it; a variation
\* two companies share belongs to the later one, and the variations the
\* earlier one does not share are entries of its own.
C25_LastLoadedCompanyKeepsSharedVariant ==
  refresh.completed =>
    LET active == SelectSeq(companies_table, IsActive)
    IN  /\ \A n \in DOMAIN active : \A key \in KeysOf(active[n]) :
             /\ Cardinality(PositionsOf(name_variations, key)) = 1
             /\ \A i \in PositionsOf(name_variations, key) :
                  \E m \in DOMAIN active :
                    /\ name_variations[i].company_id = active[m].id
                    /\ key \in KeysOf(active[m])
                    /\ \A later \in DOMAIN active :
                         later > m => key \notin KeysOf(active[later])
        /\ \A i \in DOMAIN name_variations :
             \E n \in DOMAIN active : name_variations[i].variation \in KeysOf(active[n])

\* Company 1 was loaded before company 2: the key 'ab' they share is an entry
\* of company 2, the keys 'al' and 'ab ltd' are entries of company 1.
C25_Witness ==
  /\ refresh.completed
  /\ \E i, j \in DOMAIN companies_table :
       i < j /\ companies_table[i].id = 1 /\ companies_table[j].id = 2
  /\ {<<<<"a", "b">>, 2>>, <<<<"a", "l">>, 1>>, <<<<"a", "b", " ", "l", "t", "d">>, 1>>,
      <<<<"x", "y">>, 2>>}
       \subseteq Items(name_variations)
  /\ <<<<"a", "b">>, 1>> \notin Items(name_variations)

\* ------------------------------------------------- what a batch run changes

\* The documents a step changes.
Changed == {d \in DocIds : documents'[d] # documents[d]}

\* C26: a step of match_news_to_companies changes no company and no ESGScore
\* record; a document it changes was a news document without a company when
\* the run selected it, is one of the at most `limit` rows selected, and
\* differs in its company_id and confidence_score alone; a company_id that
\* is set is never set again nor changed by a later run.
C26_RunChangesOnlySelectedAttributions ==
  [][/\ companies_table' = companies_table
     /\ esg_scores' = esg_scores
     /\ \A d \in Changed :
          /\ d \in session[1].unmatched_docs
          /\ IsUnmatched(session[1].before[d])
          /\ documents[d].company_id = NoCompany
          /\ documents'[d].company_id # NoCompany
          /\ documents'[d] =
               [documents[d] EXCEPT !.company_id = documents'[d].company_id,
                                    !.confidence_score = documents'[d].confidence_score]
     /\ Cardinality(Changed) <= session[1].limit
     /\ \A d \in DocIds :
          documents[d].company_id # NoCompany =>
            /\ documents'[d] = documents[d]
            /\ \A a \in session'[1].assigned : a.id # d]_vars

\* Two runs have returned: the second attributed a document and left the
\* document the first had attributed as it was.
C26_Witness ==
  /\ previous.returned
  /\ previous.attributed # {}
  /\ session[1].pc = "returned"
  /\ session[1].assigned # {}
  /\ \A d \in previous.attributed :
       /\ documents[d].company_id # NoCompany
       /\ documents[d] = session[1].before[d]

\* ------------------------------------------------------ two concurrent runs

\* The store and the matcher after EntityMatcher() is constructed; the order
\* of the index is of no account here.
InitConcurrent ==
  /\ company_cache = LoadedCache
  /\ name_variations = CHOOSE index \in LoadedIndexes : TRUE
  /\ documents \in Stores
  /\ session = [s \in Sessions |-> IdleSession]
  /\ previous = NoRun
  /\ text = <<>>
  /\ found = None
  /\ score = NoScore
  /\ companies_table = Companies
  /\ esg_scores = <<>>
  /\ validation = NoValidation
  /\ mapping = NoMapping
  /\ refresh = NoRefresh
  /\ lookup = NoLookup
  /\ generated = NoNames

\* Two threads call match_news_to_companies once each, every one with its
\* own SessionLocal(); nothing orders their steps.  A third caller may remap
\* the key 'abc' to company 2 meanwhile, so that the two loops can run on
\* different indexes.
NextConcurrent ==
  \/ \E s \in Sessions : session[s].pc = "idle" /\ MatchQuery(s)
  \/ \E s \in Sessions : MatchCommit(s)
  \/ \E s \in Sessions : MatchRaise(s)
  \/ AddManualMapping(<<"A", "B", "C">>, <<"X", "Y">>)

SpecConcurrent == InitConcurrent /\ [][NextConcurrent]_vars

\* The documents a session's loop has given a company.
AttributedBy(s) == {a.id : a \in session[s].assigned}

\* C27: when a run commits, every document its loop attributed holds the
\* company and the confidence that run computed, whatever another run has
\* committed on it before, the run returns the number of these documents,
\* and every other document is as it was: runs over disjoint documents do
\* not interfere, and on a shared document the last commit wins.
C27_LastCommitWins ==
  [][\A s \in Sessions :
       (session[s].pc = "matched" /\ session'[s].pc = "returned") =>
         /\ \A a \in session[s].assigned :
              /\ documents'[a.id].company_id = a.company_id
              /\ documents'[a.id].confidence_score = a.confidence_score
         /\ \A d \in DocIds \ AttributedBy(s) : documents'[d] = documents[d]
         /\ session'[s].result = <<Cardinality(AttributedBy(s))>>]_vars

\* Both runs selected the same document while it had no company and gave it
\* different companies; both have committed and counted it, and the store
\* holds the company of one of them.
C27_Witness ==
  /\ \A s \in Sessions : session[s].pc = "returned"
  /\ \E a \in session[1].assigned, b \in session[2].assigned :
       /\ a.id = b.id
       /\ a.company_id # b.company_id
       /\ session[1].before[a.id].company_id = NoCompany
       /\ session[2].before[a.id].company_id = NoCompany
       /\ session[1].result[1] >= 1 /\ session[2].result[1] >= 1
       /\ documents[a.id].company_id \in {a.company_id, b.company_id}

\* The two runs selected different documents, and each document holds the
\* company its own run computed.
C27_WitnessDisjoint ==
  /\ \A s \in Sessions : session[s].pc = "returned"
  /\ AttributedBy(1) # {} /\ AttributedBy(2) # {}
  /\ session[1].unmatched_docs \cap session[2].unmatched_docs = {}
  /\ \A s \in Sessions : \A a \in session[s].assigned :
       documents[a.id].company_id = a.company_id

\* ------------------------------------------- the index and the company cache

\* C30 as stated: every company id that is a value of the index is a key of
\* the company cache.
C30_IndexValuesAreCached ==
  \A i \in DOMAIN name_variations :
    name_variations[i].company_id \in DOMAIN company_cache

\* --------------------------------------------- a batch run, then a validation

\* A stored news document without a company.
Unattributed(title, content) == Attributed(NoCompany, None, title, content)

\* What a document can be when the batch runs.
PipelineKinds == <<
  \* the symbol of company 1 is a word of the title: the exact path
  Unattributed(<<"A", "B", "C", " ", "u", "p">>, <<>>),
  \* the symbol is part of a word: the fuzzy path, ratio('abc', 'abcd') = 6/7
  Unattributed(<<"A", "b", "c", "d">>, <<>>),
  \* close to 'abc ltd' and no variation in it: ratio('abc ltd', 'abd ltd') = 6/7
  Unattributed(<<"A", "b", "d", " ", "L", "t", "d">>, <<>>),
  \* a name that only a manual mapping gives to company 1
  Unattributed(<<"Z", "e", "d", " ", "u", "p">>, <<>>),
  \* the symbol in the leading slice of the content
  Unattributed(<<"u", "p">>, <<"a", "b", "c", " ", "x">>),
  \* attributed to company 1 before the run
  Attributed(1, ExactConfidence, <<"A", "B", "C", " ", "u", "p">>, <<>>)
>>

\* The stores hold one document more than the validation samples.
PipelineStores ==
  {[d \in ValidatedIds |-> PipelineKinds[k[d]]] :
     k \in {f \in [ValidatedIds -> DOMAIN PipelineKinds] :
              \A d \in ValidatedIds : d + 1 \in ValidatedIds => f[d] <= f[d + 1]}}

InitPipeline ==
  /\ company_cache = LoadedCache
  /\ name_variations = CHOOSE index \in LoadedIndexes : TRUE
  /\ documents \in PipelineStores
  /\ session = [s \in Sessions |-> IdleSession]
  /\ previous = NoRun
  /\ text = <<>>
  /\ found = None
  /\ score = NoScore
  /\ companies_table = Companies
  /\ esg_scores = <<>>
  /\ validation = NoValidation
  /\ mapping = NoMapping
  /\ refresh = NoRefresh
  /\ lookup = NoLookup
  /\ generated = NoNames

\* One matcher: add_manual_mapping('Zed', 'ABC') or not, one run of
\* match_news_to_companies, and validate_existing_matches right after it.
NextPipeline ==
  \/ session[1].pc = "idle" /\ AddManualMapping(<<"Z", "e", "d">>, <<"A", "B", "C">>)
  \/ session[1].pc = "idle" /\ MatchQuery(1)
  \/ MatchCommit(1)
  \/ session[1].pc = "returned" /\ ValidateExistingMatches

SpecPipeline == InitPipeline /\ [][NextPipeline]_vars

\* C29 as stated: every document the run attributed is counted under
\* confirmed_matches by the validation that follows.
C29_AttributedIsConfirmed ==
  validation.pc = "returned" =>
    \A a \in session[1].assigned : a.id \in validation.mentioned

\* The document was attributed by the exact path through a key generated from
\* the name and the symbol of a company of the cache.
ByGeneratedKey(a) ==
  LET match == DocumentMatch(name_variations, session[1].before[a.id])
  IN  /\ Eq(a.confidence_score, ExactConfidence)
      /\ a.company_id \in DOMAIN company_cache
      /\ match[2] \in KeysOf(company_cache[a.company_id])

\* C29, amended: a document the run attributed by the exact path, through a
\* key generated from the name and the symbol of its cached company, is
\* counted under confirmed_matches by the validation that follows when it is
\* one of the documents that validation samples.
C29_ExactGeneratedAttributionIsConfirmed ==
  validation.pc = "returned" =>
    \A a \in session[1].assigned :
      (a.id \in Range(validation.matched_docs) /\ ByGeneratedKey(a)) =>
        a.id \in validation.mentioned

\* A document attributed by the symbol in its content was sampled and
\* confirmed, and the validation counted a document of the same run under
\* no_mention_found.
C29_Witness ==
  /\ validation.pc = "returned"
  /\ \E a \in session[1].assigned :
       /\ ByGeneratedKey(a)
       /\ documents[a.id].title = <<"u", "p">>
       /\ a.id \in validation.mentioned
  /\ \E b \in session[1].assigned :
       /\ b.id \in Range(validation.matched_docs)
       /\ b.id \notin validation.mentioned

\* ------------------------------------------------- runs repeated for ever

\* match_news_to_companies called again with the limit of the first call.
MatchAgain ==
  /\ MatchQuery(1)
  /\ session[1].pc = "idle" \/ session'[1].limit = session[1].limit

\* Successful runs alone: no exception, every run commits.
NextLive ==
  \/ MatchAgain
  \/ MatchCommit(1)

\* The caller goes on calling and every call returns: a run that can start
\* does start, a run that can commit does commit.
SpecLive ==
  /\ Init
  /\ [][NextLive]_vars
  /\ WF_vars(MatchAgain)
  /\ WF_vars(MatchCommit(1))

\* The document is a news document without a company for which the index
\* gives a match above 0.8.
Matchable(d) ==
  /\ IsUnmatched(documents[d])
  /\ IsAssigned(MatchOf(name_variations, documents[d]))

\* C28 as stated: under repeated successful runs with one limit and one
\* index, every matchable document without a company is eventually given one.
C28_MatchableEventuallyAttributed ==
  \A d \in DocIds : Matchable(d) ~> (documents[d].company_id # NoCompany)

====
